---- MODULE Spec2Model ----
(***************************************************************************)
(* Model of the Centris listing analyser (src/centris_analyzer.py), of the  *)
(* Template 1 calculations (src/template1_calcs.py), of the watcher        *)
(* (src/centris_watcher.py) and of the scan of src/app.py.                 *)
(*                                                                         *)
(* Spec checks analyser_centris over documents, SpecMoney _money_to_int    *)
(* over texts, SpecCalc compute_template1 over Template1Inputs, whose      *)
(* floats are exact fractions [k, num, den], SpecPost the retry loop of    *)
(* _post_to_analyzer, SpecWatcher the scans of the watcher and SpecApp two *)
(* runs of process_new_centris_listings that interleave.                   *)
(*                                                                         *)
(* Python values are records [t, n, s]: t is the Python type, n the        *)
(* number (a float is held in hundredths) and s the text as a sequence of  *)
(* one-character strings.  An Optional[int] result is a record [t, v]      *)
(* with t in {"None", "int", "raise"}; "raise" is an exception leaving the *)
(* function.  "~" stands for U+00A0 and "^" for U+202F.                    *)
(*                                                                         *)
(* A value that a definition reads more than once is a parameter of a      *)
(* helper definition, so that it is computed once.                         *)
(***************************************************************************)
EXTENDS Integers, Sequences, FiniteSets, TLC

VARIABLES
    mpc,    \* _money_to_int: "call" before the call, "done" after it
    x,      \* _money_to_int: the argument
    ret,    \* _money_to_int: the value returned, or Raise
    pc,     \* analyser_centris: "call", then "returned" or "raised"
    html,   \* analyser_centris: the document
    out,    \* analyser_centris: the record returned
    cpc,    \* compute_template1: "call", then "returned" or "raised"
    inputs, \* compute_template1: the Template1Inputs
    results, \* compute_template1: the dict returned
    ppc,    \* _post_to_analyzer: "loop" inside the for loop, then "returned"
    ANALYZER_RETRY, \* _post_to_analyzer: the configured number of retries
    attempt, \* _post_to_analyzer: the loop variable
    posts,  \* _post_to_analyzer: the outcomes of the POSTs made so far
    triple, \* _post_to_analyzer: the (status, text, data) returned
    wpc,    \* watcher: "start" before a scan, "loop" in it, "crashed" after an exception
    DISCORD_WEBHOOK_URL, \* watcher: TRUE when the webhook is configured
    seen_file, \* watcher: the ids in SEEN_FILE
    seen,   \* run_one_full_scan: the set seen
    urls,   \* run_one_full_scan: the URLs the loop has yet to visit
    scans,  \* watcher: the number of scans started
    analysed, \* watcher: per listing id, the number of calls of analyze_listing
    notified, \* watcher: per listing id, the number of messages posted to Discord
    failed, \* watcher: per listing id, the number of turns that an exception ended
    last,   \* watcher: the last listing analysed and what became of it
    apc,    \* app.py: per run of process_new_centris_listings, "idle", "loop" or "done"
    processed_ids, \* process_new_centris_listings: per run, the set processed_ids
    links,  \* process_new_centris_listings: per run, the links yet to visit
    processed_file, \* app.py: the ids in PROCESSED_IDS_FILE
    emailed, \* app.py: per listing id, the number of calls of send_email
    marked  \* app.py: the ids that a run added to its processed_ids

moneyVars == <<mpc, x, ret>>
analyserVars == <<pc, html, out>>
calcVars == <<cpc, inputs, results>>
postVars == <<ppc, ANALYZER_RETRY, attempt, posts, triple>>
watcherVars == <<wpc, DISCORD_WEBHOOK_URL, seen_file, seen, urls, scans, analysed, notified, failed, last>>

appVars == <<apc, processed_ids, links, processed_file, emailed, marked>>

vars == <<moneyVars, analyserVars, calcVars, postVars, watcherVars, appVars>>

-----------------------------------------------------------------------------
(* Python values *)

PyNone == [t |-> "None", n |-> 0, s |-> <<>>]
PyBool(b) == [t |-> "bool", n |-> IF b THEN 1 ELSE 0, s |-> <<>>]
PyInt(i) == [t |-> "int", n |-> i, s |-> <<>>]
\* a finite float, given in hundredths: PyFloat(250) is 2.5
PyFloat(h) == [t |-> "float", n |-> h, s |-> <<>>]
PyNaN == [t |-> "nan", n |-> 0, s |-> <<>>]
PyInf == [t |-> "inf", n |-> 0, s |-> <<>>]
PyStr(cs) == [t |-> "str", n |-> 0, s |-> cs]
\* dict.get(key) of a key the dict does not hold (None to the caller)
Absent == [t |-> "absent", n |-> 0, s |-> <<>>]

\* bool(v)
PyTruthy(v) ==
    CASE v.t \in {"None", "absent"} -> FALSE
      [] v.t \in {"bool", "int", "float"} -> v.n # 0
      [] v.t \in {"nan", "inf"} -> TRUE
      [] v.t = "str" -> v.s # <<>>

\* a or b
OrElse(a, b) == IF PyTruthy(a) THEN a ELSE b

\* Optional[str]: a text, or NoneStr
NoneStr == "<None>"

\* Optional[int] results, and an exception leaving the function
None == [t |-> "None", v |-> 0]
Some(i) == [t |-> "int", v |-> i]
Raise == [t |-> "raise", v |-> 0]

\* Python truthiness of an Optional[int]
Truthy(r) == r.t = "int" /\ r.v # 0

Max(S) == CHOOSE m \in S : \A n \in S : n <= m
Min(S) == CHOOSE m \in S : \A n \in S : m <= n

-----------------------------------------------------------------------------
(* Characters *)

Digits == {"0", "1", "2", "3", "4", "5", "6", "7", "8", "9"}

DigitVal(c) ==
    CASE c = "0" -> 0 [] c = "1" -> 1 [] c = "2" -> 2 [] c = "3" -> 3
      [] c = "4" -> 4 [] c = "5" -> 5 [] c = "6" -> 6 [] c = "7" -> 7
      [] c = "8" -> 8 [] c = "9" -> 9

RECURSIVE Pow10(_)
Pow10(k) == IF k = 0 THEN 1 ELSE 10 * Pow10(k - 1)

RECURSIVE DigitsToInt(_)
DigitsToInt(cs) ==
    IF cs = <<>> THEN 0
    ELSE 10 * DigitsToInt(SubSeq(cs, 1, Len(cs) - 1)) + DigitVal(cs[Len(cs)])

AllDigits(cs) == \A i \in 1..Len(cs) : cs[i] \in Digits
Contains(cs, c) == \E i \in 1..Len(cs) : cs[i] = c
Count(cs, c) == Cardinality({i \in 1..Len(cs) : cs[i] = c})

\* str.replace(old, new) for one-character old and new
Replace(cs, old, new) == [i \in 1..Len(cs) |-> IF cs[i] = old THEN new ELSE cs[i]]
\* str.replace(c, "")
Remove(cs, c) == SelectSeq(cs, LAMBDA d : d # c)

RECURSIVE LStrip(_)
LStrip(cs) ==
    IF cs # <<>> /\ cs[1] = " " THEN LStrip(Tail(cs)) ELSE cs

RECURSIVE RStrip(_)
RStrip(cs) ==
    IF cs # <<>> /\ cs[Len(cs)] = " " THEN RStrip(SubSeq(cs, 1, Len(cs) - 1)) ELSE cs

\* str.strip() of a text whose only whitespace is " "
Strip(cs) == RStrip(LStrip(cs))

\* str(x).replace(nbsp, " ").replace(nnbsp, " ").strip(): "~" stands for the
\* no-break space U+00A0, "^" for the narrow no-break space U+202F
Spaced(cs) == Strip(Replace(Replace(cs, "~", " "), "^", " "))

-----------------------------------------------------------------------------
(* int(round(float(s))) *)

\* round(): half to even, of num/den with den > 0
RoundHalfEven(num, den) ==
    IF 2 * (num % den) < den THEN num \div den
    ELSE IF 2 * (num % den) > den THEN (num \div den) + 1
    ELSE IF (num \div den) % 2 = 0 THEN num \div den ELSE (num \div den) + 1

\* the text after its sign
Unsigned(cs) == IF cs # <<>> /\ cs[1] = "-" THEN Tail(cs) ELSE cs

\* float(s) accepts [-]digits[.digits] with at least one digit
FloatSyntaxOfBody(body) ==
    /\ Count(body, ".") <= 1
    /\ \A i \in 1..Len(body) : body[i] \in Digits \cup {"."}
    /\ \E i \in 1..Len(body) : body[i] \in Digits

FloatSyntax(cs) == FloatSyntaxOfBody(Unsigned(cs))

\* where the "." of body is, Len(body) + 1 when it has none
DotIndex(body) ==
    IF Contains(body, ".") THEN CHOOSE i \in 1..Len(body) : body[i] = "."
    ELSE Len(body) + 1

\* int(round(v)) of the float v = [-]body, whose "." is at dot
RoundedDecimal(neg, body, dot) ==
    Some(RoundHalfEven(
        (IF neg THEN -1 ELSE 1)
            * DigitsToInt(SubSeq(body, 1, dot - 1) \o SubSeq(body, dot + 1, Len(body))),
        Pow10(IF dot > Len(body) THEN 0 ELSE Len(body) - dot)))

RoundedFloat(neg, body) == RoundedDecimal(neg, body, DotIndex(body))

\* try: int(round(float(s))) except Exception: None
IntRoundFloat(cs) ==
    IF ~FloatSyntax(cs) THEN None ELSE RoundedFloat(cs[1] = "-", Unsigned(cs))

-----------------------------------------------------------------------------
(* _money_to_int *)

\* re.sub(r"[^0-9,\.\-\s]", "", s): the characters that are kept
KeptChars == Digits \cup {",", ".", "-", " "}

\* the pattern of the body, after the sign: \d+,\d{2}
FrDecimalBody(body, n) ==
    /\ n >= 4
    /\ body[n - 2] = ","
    /\ body[n - 1] \in Digits
    /\ body[n] \in Digits
    /\ AllDigits(SubSeq(body, 1, n - 3))

\* re.match(r"^-?\d+,\d{2}$", s2)
FrDecimalPattern(s2) == FrDecimalBody(Unsigned(s2), Len(Unsigned(s2)))

\* s2 once the spaces are out: the decimal comma, the thousands commas, the rest
MoneyOfCleaned(s2) ==
    IF Contains(s2, ",") /\ ~Contains(s2, ".")
    THEN IF FrDecimalPattern(s2)
         THEN IntRoundFloat(Replace(s2, ",", "."))
         ELSE IntRoundFloat(Remove(s2, ","))
    ELSE IF Contains(s2, ",") /\ Contains(s2, ".")
         THEN IntRoundFloat(Remove(s2, ","))
         ELSE IntRoundFloat(s2)

\* `if not s2: return None`
MoneyOfKept(kept) == IF kept = <<>> THEN None ELSE MoneyOfCleaned(Remove(kept, " "))

\* the str branch of _money_to_int
MoneyOfText(cs) == MoneyOfKept(Strip(SelectSeq(Spaced(cs), LAMBDA c : c \in KeptChars)))

_money_to_int(v) ==
    CASE v.t \in {"None", "bool", "absent"} -> None
      [] v.t = "int" -> Some(v.n)
      [] v.t = "float" -> Some(RoundHalfEven(v.n, 100))
      \* round(nan) raises ValueError, round(inf) OverflowError, outside any try
      [] v.t \in {"nan", "inf"} -> Raise
      [] v.t = "str" -> MoneyOfText(v.s)

-----------------------------------------------------------------------------
(* _as_int, _as_str *)

\* int(digits), None when int() fails
IntOfDigits(digits) ==
    IF digits = <<>> \/ digits = <<"-">> THEN None
    ELSE IF Unsigned(digits) = <<>> \/ ~AllDigits(Unsigned(digits)) THEN None
    ELSE Some((IF digits[1] = "-" THEN -1 ELSE 1) * DigitsToInt(Unsigned(digits)))

\* re.sub(r"[^\d\-]", "", s)
IntOfText(cs) == IntOfDigits(SelectSeq(Spaced(cs), LAMBDA c : c \in Digits \cup {"-"}))

\* int(x) of a float held in hundredths: truncation towards zero
TruncHundredths(h) == IF h >= 0 THEN h \div 100 ELSE -((-h) \div 100)

_as_int(v) ==
    CASE v.t \in {"None", "bool", "absent"} -> None
      [] v.t = "int" -> Some(v.n)
      [] v.t = "float" -> Some(TruncHundredths(v.n))
      \* int(nan) raises ValueError, int(inf) OverflowError, outside any try
      [] v.t \in {"nan", "inf"} -> Raise
      [] v.t = "str" -> IntOfText(v.s)

\* _as_str of a text value; "" is the absent, None or blank value
_as_str(w) == IF w = "" THEN NoneStr ELSE w

-----------------------------------------------------------------------------
(* The document.                                                           *)
(*                                                                         *)
(* html.kind   "None", "empty" (""), "nonstr" (a truthy value that is not  *)
(*             a str: an int, bytes) or "str"                              *)
(* html.ld     the application/ld+json scripts, in document order          *)
(* html.meta   for og:description, twitter:description and description:    *)
(*             the first amount of the content (PyStr), PyNone when the    *)
(*             tag or an amount is missing                                 *)
(* html.text   the visible text, as tokens in document order               *)
(* html.next   the __NEXT_DATA__ script                                    *)
(* html.ids    the ids the three patterns of                               *)
(*             _extract_centris_id_from_html find: og:url, canonical, the  *)
(*             first "/digits" of the document (<<>>: no match)            *)
(***************************************************************************)

\* `if not html`
NotHtml(h) == h.kind \in {"None", "empty"}

\* a step of a scan that returns early: go on, or return r
Cont == [k |-> "cont", r |-> None]
Ret(r) == [k |-> "ret", r |-> r]

\* what a loop does after one step: return what the step returned, or go on
OrNext(step, rest) == IF step.k = "ret" THEN step ELSE rest

PriceFloor == 20000

-----------------------------------------------------------------------------
(* _extract_price_from_jsonld.                                             *)
(*                                                                         *)
(* A script is "blank", "bad" (json.loads fails) or "json" with its items  *)
(* (the object, or the objects of the list).  An item has offers that are  *)
(* a dict ("dict", one offer), a list ("list") or anything else            *)
(* ("nooffers"); an offer of a list is a dict with a price, or not a dict. *)
(***************************************************************************)

\* `if isinstance(off, dict) and off.get("price") is not None`, `if p: return p`
OfferOfList(off, p) ==
    IF off.isdict /\ off.price.t \notin {"None", "absent"}
    THEN IF p = Raise \/ Truthy(p) THEN Ret(p) ELSE Cont
    ELSE Cont

\* `for off in offers`
RECURSIVE ScanOfferList(_)
ScanOfferList(offers) ==
    IF offers = <<>> THEN Cont
    ELSE OrNext(OfferOfList(Head(offers), _money_to_int(Head(offers).price)),
                ScanOfferList(Tail(offers)))

\* one `it` of candidates: offers a dict, a list, or anything else
ScanItem(it) ==
    CASE it.k = "dict" ->
            IF it.offers[1].price.t \notin {"None", "absent"}
            THEN Ret(_money_to_int(it.offers[1].price))
            ELSE Cont
      [] it.k = "list" -> ScanOfferList(it.offers)
      [] OTHER -> Cont

\* `for it in candidates`
RECURSIVE ScanItems(_)
ScanItems(items) ==
    IF items = <<>> THEN Cont
    ELSE OrNext(ScanItem(Head(items)), ScanItems(Tail(items)))

\* `for raw in scripts`: blank and unparsable scripts are skipped
RECURSIVE ScanScripts(_)
ScanScripts(scripts) ==
    IF scripts = <<>> THEN Cont
    ELSE OrNext(IF Head(scripts).k = "json" THEN ScanItems(Head(scripts).items) ELSE Cont,
                ScanScripts(Tail(scripts)))

_extract_price_from_jsonld(h) ==
    IF NotHtml(h) THEN None ELSE ScanScripts(h.ld).r

-----------------------------------------------------------------------------
(* The visible text: soup.get_text("\n", strip=True).                      *)
(*                                                                         *)
(* A token is a line, or a run of lines, of n lines and c characters:      *)
(*   "vendre"  a line holding "à vendre", and the amount s when s # <<>>   *)
(*   "amt"     a line holding the amount s followed by "$"                 *)
(*   "rev", "mun", "sco"  a line holding the label "Revenus bruts          *)
(*             potentiels", "Municipales", "Scolaires"                     *)
(*   "duplex", "triplex", "quadruplex"  a line holding that word           *)
(*   "gap"     n lines that hold none of these                             *)
(* s is the group the amount pattern (\d[\d\s,\.]{2,})\s*\$ captures.      *)
(* The text is what get_text returns of the document, whatever elements it *)
(* reads; the scripts and the metas modelled hold no "$", so the amounts   *)
(* of the text are those of the tokens alone.                              *)
(***************************************************************************)

AnchorScanLines == 700
WindowLines == 80
TopLines == 420
PriceScanChars == 12000
HeadChars == 1600

RECURSIVE SumLines(_, _)
SumLines(text, i) == IF i = 0 THEN 0 ELSE SumLines(text, i - 1) + text[i].n

RECURSIVE SumChars(_, _)
SumChars(text, i) == IF i = 0 THEN 0 ELSE SumChars(text, i - 1) + text[i].c

\* the index in `lines` of token i's (first) line
LineOf(text, i) == SumLines(text, i - 1)
\* the offset in the whitespace-collapsed text of the end of token i
EndOf(text, i) == SumChars(text, i)

HasAmount(tok) == tok.k \in {"vendre", "amt"} /\ tok.s # <<>>

AmountTokens(text) == {i \in 1..Len(text) : HasAmount(text[i])}

\* (\d[\d\s,\.]{2,}) runs over line breaks: the digits that end the lines just
\* above token i, no higher than token lo, are part of the match
RECURSIVE Glued(_, _, _)
Glued(text, i, lo) ==
    IF i > lo /\ text[i - 1].k = "num"
    THEN Glued(text, i - 1, lo) \o text[i - 1].s \o <<" ">>
    ELSE <<>>

\* m.group(1) of the match that ends at token i, in the text read from token lo
MatchedText(text, i, lo) ==
    IF text[i].k = "amt" THEN Glued(text, i, lo) \o text[i].s ELSE text[i].s

\* _money_to_int(m.group(1))
AmountOf(text, i, lo) == _money_to_int(PyStr(MatchedText(text, i, lo)))

\* the first token of the lines [from, ...)
FirstTokenFrom(text, from) ==
    Min({j \in 1..Len(text) : from <= LineOf(text, j)} \cup {Len(text) + 1})

\* the amounts `p and p >= 20_000` of the lines [from, to), every match of finditer
Candidates(text, from, to) ==
    {p.v : p \in
        {q \in {AmountOf(text, i, FirstTokenFrom(text, from)) :
                    i \in {j \in AmountTokens(text) :
                            from <= LineOf(text, j) /\ LineOf(text, j) < to}} :
            Truthy(q) /\ q.v >= PriceFloor}}

\* `for i, ln in enumerate(lines[:700])`: the tokens that hold "à vendre"
AnchorTokens(text) ==
    {i \in 1..Len(text) : text[i].k = "vendre" /\ LineOf(text, i) < AnchorScanLines}

\* lines[idx: idx + 80], idx the first "à vendre" line
WindowCandidates(text, anchors) ==
    IF anchors = {} THEN {}
    ELSE Candidates(text, LineOf(text, Min(anchors)), LineOf(text, Min(anchors)) + WindowLines)

-----------------------------------------------------------------------------
(* _extract_display_price_from_header *)

\* one meta of meta_patterns: `if p and p >= 20_000: return p`
MetaPrice(meta, p) ==
    IF meta.t = "str" /\ Truthy(p) /\ p.v >= PriceFloor THEN Ret(p) ELSE Cont

\* `for pat in meta_patterns`
RECURSIVE ScanMetas(_)
ScanMetas(metas) ==
    IF metas = <<>> THEN Cont
    ELSE OrNext(MetaPrice(Head(metas), _money_to_int(Head(metas))), ScanMetas(Tail(metas)))

\* max(candidates) of the window, else of the top lines, else None
PickHeaderText(window, top) ==
    IF window # {} THEN [src |-> "window", p |-> Some(Max(window))]
    ELSE IF top # {} THEN [src |-> "top", p |-> Some(Max(top))]
    ELSE [src |-> "none", p |-> None]

\* steps 2 and 3: the window of the first "à vendre" line, then the top lines
HeaderTextPrice(text) ==
    PickHeaderText(WindowCandidates(text, AnchorTokens(text)), Candidates(text, 0, TopLines))

\* step 1 and what follows it
HeaderAfterJsonLd(h, m) ==
    IF m.k = "ret" THEN [src |-> "meta", p |-> m.r] ELSE HeaderTextPrice(h.text)

\* step 0: `if p_jsonld and p_jsonld >= 20_000: return p_jsonld`
HeaderFrom(h, p_jsonld) ==
    IF p_jsonld = Raise THEN [src |-> "raise", p |-> Raise]
    ELSE IF Truthy(p_jsonld) /\ p_jsonld.v >= PriceFloor
    THEN [src |-> "jsonld", p |-> p_jsonld]
    ELSE HeaderAfterJsonLd(h, ScanMetas(h.meta))

\* the price and the step of the priority list that returned it
HeaderPrice(h) ==
    IF NotHtml(h) THEN [src |-> "none", p |-> None]
    ELSE HeaderFrom(h, _extract_price_from_jsonld(h))

_extract_display_price_from_header(h) == HeaderPrice(h).p

-----------------------------------------------------------------------------
(* __NEXT_DATA__.                                                          *)
(*                                                                         *)
(* html.next.k  "absent" (no script), "blank", "bad" (json.loads fails),   *)
(*              "falsy" (a falsy JSON value: {}, [], 0, "", null, false)   *)
(*              or "json"                                                  *)
(* html.next.nodes  the dicts of the payload in the order walk() meets     *)
(*              them: a dict before the dicts inside it, values and list   *)
(*              items in document order                                    *)
(* A node holds the keys the analyser reads:                               *)
(*   idkey, idval   an id-like key ("" when none) and its value            *)
(*   price, prix, gpr (grossPotentialRevenue), rbp                         *)
(*   (revenusBrutsPotentiels), units (numberOfUnits): values, Absent when  *)
(*   the key is missing                                                    *)
(*   taxes  "absent", "other" (not a dict) or "dict", with the values of   *)
(*   taxes.municipal and taxes.school                                      *)
(*   ptype  propertyType ("" when missing)                                 *)
(*   extra  lower-cased names of further keys whose values                 *)
(*   _extract_from_listing does not read (an address that is a string)     *)
(* A taxes dict holds none of the id-like keys and scores 2, less than the *)
(* node that holds it, so neither walk ever picks it: it is not a node of  *)
(* its own.                                                                *)
(***************************************************************************)

NoPayload == [k |-> "absent", nodes |-> <<>>]

_extract_next_data_json(h) ==
    IF NotHtml(h) THEN NoPayload
    ELSE IF h.next.k \in {"absent", "blank", "bad"} THEN NoPayload
    ELSE h.next

\* a payload whatever the script held
PayloadAlways(nd) == TRUE

\* `if next_data`
PayloadTruthy(nd) == nd.k = "json"

\* str(i) of a non-negative int
RECURSIVE IntToChars(_)
IntToChars(i) ==
    IF i < 10 THEN <<CHOOSE c \in Digits : DigitVal(c) = i>>
    ELSE Append(IntToChars(i \div 10), CHOOSE c \in Digits : DigitVal(c) = i % 10)

\* str(v).strip() of an id value
StrOfId(v) ==
    CASE v.t = "int" /\ v.n >= 0 -> IntToChars(v.n)
      [] v.t = "str" -> Strip(v.s)
      [] OTHER -> <<"?">>

\* the first pattern of _extract_centris_id_from_html that matches
_extract_centris_id_from_html(h) ==
    IF NotHtml(h) THEN <<>>
    ELSE IF h.ids[1] # <<>> THEN h.ids[1]
    ELSE IF h.ids[2] # <<>> THEN h.ids[2]
    ELSE h.ids[3]

LISTING_SIGNAL_KEYS ==
    {"taxes", "municipal", "school", "price", "prix",
     "grosspotentialrevenue", "revenusbrutspotentiels",
     "address", "city", "municipality", "borough", "district", "area",
     "units", "numberofunits", "unitcount",
     "building", "lot", "landarea",
     "id", "listingid", "centrisid", "mlsnumber", "propertyid"}

IdLikeKeys ==
    {"id", "listingid", "centrisid", "propertyid", "mlsnumber", "number", "reference"}

\* {str(k).lower() for k in obj.keys()}
LowerKeys(node) ==
    (IF node.idkey # "" THEN {node.idkey} ELSE {})
        \cup (IF node.price.t # "absent" THEN {"price"} ELSE {})
        \cup (IF node.prix.t # "absent" THEN {"prix"} ELSE {})
        \cup (IF node.gpr.t # "absent" THEN {"grosspotentialrevenue"} ELSE {})
        \cup (IF node.rbp.t # "absent" THEN {"revenusbrutspotentiels"} ELSE {})
        \cup (IF node.units.t # "absent" THEN {"numberofunits"} ELSE {})
        \cup (IF node.taxes # "absent" THEN {"taxes"} ELSE {})
        \cup (IF node.ptype # "" THEN {"propertytype"} ELSE {})
        \cup node.extra

\* the score of a dict whose lower-cased keys are `keys`
ScoreOfKeys(keys) ==
    Min({Cardinality(keys \cap LISTING_SIGNAL_KEYS), 12})
        + (IF "taxes" \in keys THEN 6 ELSE 0)
        + (IF "price" \in keys \/ "prix" \in keys THEN 6 ELSE 0)
        + (IF "grosspotentialrevenue" \in keys \/ "revenusbrutspotentiels" \in keys
           THEN 6 ELSE 0)
        + (IF "address" \in keys THEN 3 ELSE 0)
        + (IF "units" \in keys \/ "numberofunits" \in keys THEN 3 ELSE 0)

_score_listing_candidate(node) == ScoreOfKeys(LowerKeys(node))

_dict_contains_centris_id(node, centris_id) ==
    /\ centris_id # <<>>
    /\ node.idkey \in IdLikeKeys
    /\ StrOfId(node.idval) = centris_id

\* the last of the dicts `hits`, 0 for None
LastOf(hits) == IF hits = {} THEN 0 ELSE Max(hits)

\* the first of the dicts `hits`, 0 for None
FirstOf(hits) == IF hits = {} THEN 0 ELSE Min(hits)

\* the index of the node found, 0 for None
_walk_find_listing_by_id(nodes, centris_id) ==
    FirstOf({i \in 1..Len(nodes) : _dict_contains_centris_id(nodes[i], centris_id)})

\* a later dict of the same score replaces the best
BetterOrEqual(prev, i, sc) ==
    IF sc >= prev.best_score THEN [best |-> i, best_score |-> sc] ELSE prev

\* `if sc > best_score: best_score = sc; best = o`
BetterOf(prev, i, sc) ==
    IF sc > prev.best_score THEN [best |-> i, best_score |-> sc] ELSE prev

\* best and best_score after walk() has met the first i dicts
RECURSIVE WalkBest(_, _)
WalkBest(nodes, i) ==
    IF i = 0 THEN [best |-> 0, best_score |-> -999]
    ELSE BetterOf(WalkBest(nodes, i - 1), i, _score_listing_candidate(nodes[i]))

_walk_find_best_listing(nodes) == WalkBest(nodes, Len(nodes))

MinListingScore == 8

-----------------------------------------------------------------------------
(* _extract_from_listing.                                                  *)
(*                                                                         *)
(* The listings modelled hold no location, address, building, lot or units *)
(* dict: the fields read from these are None.                              *)
(***************************************************************************)

\* the thirteen fields both extractors return
Fields(prix, revenu, mun, sco, nb, tp) ==
    [prix |-> prix,
     revenu_brut_potentiel_annuel |-> revenu,
     taxes_municipales |-> mun,
     taxes_scolaires |-> sco,
     nb_logements |-> nb,
     ville |-> NoneStr,
     quartier |-> NoneStr,
     type_propriete |-> tp,
     nb_etages |-> None,
     superficie_habitable_sqft |-> None,
     superficie_commerciale_sqft |-> None,
     superficie_totale_sqft |-> None,
     superficie_terrain_sqft |-> None]

NoFields == Fields(None, None, None, None, None, NoneStr)

\* the dict returned, or the exception a _money_to_int let through
ExtractedFields(prix, revenu, mun, sco, nb, tp) ==
    IF Raise \in {prix, revenu, mun, sco, nb}
    THEN [raised |-> TRUE, f |-> NoFields]
    ELSE [raised |-> FALSE, f |-> Fields(prix, revenu, mun, sco, nb, tp)]

\* listing.get("price") if "price" in listing else listing.get("prix")
ListingPrice(listing) ==
    IF listing.price.t # "absent" THEN listing.price ELSE listing.prix

\* grossPotentialRevenue, revenusBrutsPotentiels when that is None
ListingRevenue(listing) ==
    IF listing.gpr.t \notin {"absent", "None"} THEN listing.gpr ELSE listing.rbp

\* taxes.get(key) or ... of a taxes dict, None when taxes is not a dict
ListingTax(listing, v) ==
    IF listing.taxes = "dict" THEN _money_to_int(OrElse(v, PyNone)) ELSE None

\* [raised, f]: the fields of the listing, or an exception
_extract_from_listing(listing) ==
    ExtractedFields(_money_to_int(ListingPrice(listing)),
                    _money_to_int(ListingRevenue(listing)),
                    ListingTax(listing, listing.municipal),
                    ListingTax(listing, listing.school),
                    _as_int(OrElse(listing.units, PyNone)),
                    _as_str(listing.ptype))

-----------------------------------------------------------------------------
(* _price_is_phantom *)

PriceCeiling == 15000000
MaxRentMultiplier == 60

\* _price_is_phantom with a ceiling that accepts 15,000,000
PriceIsPhantomAbove(prix, revenu) ==
    \/ prix = None
    \/ prix.v <= 0
    \/ prix.v > PriceCeiling
    \/ prix.v < PriceFloor
    \/ (Truthy(revenu) /\ revenu.v > 0 /\ prix.v > MaxRentMultiplier * revenu.v)

_price_is_phantom(prix, revenu) ==
    \/ prix = None
    \/ prix.v <= 0
    \/ prix.v >= PriceCeiling
    \/ prix.v < PriceFloor
    \* (prix / revenu) > 60 with revenu > 0
    \/ (Truthy(revenu) /\ revenu.v > 0 /\ prix.v > MaxRentMultiplier * revenu.v)

-----------------------------------------------------------------------------
(* _fallback_text_extract.                                                 *)
(*                                                                         *)
(* The amounts of the tokens have three characters or more, so the         *)
(* patterns {2,} of the price and the revenue and {1,} of the taxes match  *)
(* the same amounts.                                                       *)
(***************************************************************************)

\* _money_to_int(m.group(1)) if m else None, m the first of the matches S
FirstAmount(text, S, lo) == IF S = {} THEN None ELSE AmountOf(text, Min(S), lo)

\* re.search(amount, text[:12000]): the first amount that ends within the prefix
FirstAmountWithin(text, chars) ==
    FirstAmount(text, {i \in AmountTokens(text) : EndOf(text, i) <= chars}, 1)

\* the amounts after the first of the labels L
AfterFirst(text, L) ==
    IF L = {} THEN {} ELSE {i \in AmountTokens(text) : i > Min(L)}

\* re.search(label .*? amount, text): the first amount after the first label
AmountAfterLabels(text, L) ==
    FirstAmount(text, AfterFirst(text, L), IF L = {} THEN 1 ELSE Min(L) + 1)
AmountAfterLabel(text, label) ==
    AmountAfterLabels(text, {i \in 1..Len(text) : text[i].k = label})

\* tp.lower() in head.lower(), head = text[:1600]
InHead(text, w) ==
    \E i \in 1..Len(text) : text[i].k = w /\ EndOf(text, i) <= HeadChars

\* for tp in ("Quadruplex", "Triplex", "Duplex"): the first found in head
TypeInHead(text) ==
    IF InHead(text, "quadruplex") THEN "Quadruplex"
    ELSE IF InHead(text, "triplex") THEN "Triplex"
    ELSE IF InHead(text, "duplex") THEN "Duplex"
    ELSE NoneStr

\* the fields of the visible text `text`
FallbackFields(text) ==
    Fields(FirstAmountWithin(text, PriceScanChars),
           AmountAfterLabel(text, "rev"),
           AmountAfterLabel(text, "mun"),
           AmountAfterLabel(text, "sco"),
           None,
           TypeInHead(text))

_fallback_text_extract(h) == FallbackFields(IF NotHtml(h) THEN <<>> ELSE h.text)

-----------------------------------------------------------------------------
(* analyser_centris *)

ANALYZER_VERSION == "v6-2025-12-28-money-jsonld-price"

\* the version tag inside raw_debug
OutInitVersionInDebug ==
    [property_overview |->
        [type_propriete |-> NoneStr,
         ville |-> NoneStr,
         quartier |-> NoneStr,
         nb_logements |-> None,
         nb_etages |-> None,
         superficie_habitable_sqft |-> None,
         superficie_commerciale_sqft |-> None,
         superficie_totale_sqft |-> None,
         superficie_terrain_sqft |-> None,
         prix |-> None],
     revenus |-> [revenu_brut_potentiel_annuel |-> None],
     depenses_vraies |->
        [taxes_municipales |-> None,
         taxes_scolaires |-> None,
         assurances |-> None,
         services_publics |-> None,
         electricite |-> None,
         chauffage |-> None,
         deneigement |-> None,
         autres_depenses_connues |-> None],
     raw_debug |->
        [__analyzer_version__ |-> ANALYZER_VERSION,
         has_next_data |-> FALSE,
         centris_id |-> <<>>,
         picked_mode |-> NoneStr,
         best_listing_score |-> None,
         display_price |-> None,
         price_source |-> NoneStr,
         phantom_filtered |-> FALSE]]

\* `out` as analyser_centris first builds it
OutInit ==
    [__analyzer_version__ |-> ANALYZER_VERSION,
     property_overview |->
        [type_propriete |-> NoneStr,
         ville |-> NoneStr,
         quartier |-> NoneStr,
         nb_logements |-> None,
         nb_etages |-> None,
         superficie_habitable_sqft |-> None,
         superficie_commerciale_sqft |-> None,
         superficie_totale_sqft |-> None,
         superficie_terrain_sqft |-> None,
         prix |-> None],
     revenus |-> [revenu_brut_potentiel_annuel |-> None],
     depenses_vraies |->
        [taxes_municipales |-> None,
         taxes_scolaires |-> None,
         assurances |-> None,
         services_publics |-> None,
         electricite |-> None,
         chauffage |-> None,
         deneigement |-> None,
         autres_depenses_connues |-> None],
     raw_debug |->
        [has_next_data |-> FALSE,
         centris_id |-> <<>>,
         picked_mode |-> NoneStr,
         best_listing_score |-> None,
         display_price |-> None,
         price_source |-> NoneStr,
         phantom_filtered |-> FALSE]]

\* the header price only when the filter lets it through
ArbitratePriceFiltered(display_price, prix, revenu, tag) ==
    IF Truthy(display_price) /\ ~_price_is_phantom(display_price, revenu)
    THEN [prix |-> display_price, price_source |-> "header", phantom_filtered |-> FALSE]
    ELSE IF _price_is_phantom(prix, revenu)
    THEN [prix |-> None, price_source |-> tag, phantom_filtered |-> TRUE]
    ELSE [prix |-> prix, price_source |-> tag, phantom_filtered |-> FALSE]

\* the candidate of the payload or of the text first, the header price after it
ArbitratePriceCandidateFirst(display_price, prix, revenu, tag) ==
    IF ~_price_is_phantom(prix, revenu)
    THEN [prix |-> prix, price_source |-> tag, phantom_filtered |-> FALSE]
    ELSE IF Truthy(display_price)
    THEN [prix |-> display_price, price_source |-> "header", phantom_filtered |-> FALSE]
    ELSE [prix |-> None, price_source |-> tag, phantom_filtered |-> TRUE]

\* "prix final: header si possible, sinon next_data + anti-phantom", and the
\* same lines of the text fallback with the tag "fallback"
ArbitratePrice(display_price, prix, revenu, tag) ==
    IF Truthy(display_price)
    THEN [prix |-> display_price, price_source |-> "header", phantom_filtered |-> FALSE]
    ELSE IF _price_is_phantom(prix, revenu)
    THEN [prix |-> None, price_source |-> tag, phantom_filtered |-> TRUE]
    ELSE [prix |-> prix, price_source |-> tag, phantom_filtered |-> FALSE]

\* `if isinstance(listing, dict) and score >= 8`, after no listing was found by id
PickBest(b) ==
    [idx |-> IF b.best # 0 /\ b.best_score >= MinListingScore THEN b.best ELSE 0,
     picked_mode |-> "best_score",
     best_listing_score |-> Some(b.best_score)]

\* `if listing` ... `else`
PickFrom(nodes, byid) ==
    IF byid # 0
    THEN [idx |-> byid, picked_mode |-> "by_id", best_listing_score |-> None]
    ELSE PickBest(_walk_find_best_listing(nodes))

\* the listing picked in a truthy payload: its index (0: nothing to extract
\* from), picked_mode and best_listing_score
PickListing(nodes, centris_id) ==
    PickFrom(nodes, IF centris_id # <<>> THEN _walk_find_listing_by_id(nodes, centris_id)
                    ELSE 0)

\* the fields of `f` the record takes, every one of them, and the price
FillAll(o, f, price) ==
    [o EXCEPT
        !.property_overview.prix = price.prix,
        !.property_overview.nb_logements = f.nb_logements,
        !.property_overview.ville = f.ville,
        !.property_overview.quartier = f.quartier,
        !.property_overview.type_propriete = f.type_propriete,
        !.property_overview.nb_etages = f.nb_etages,
        !.property_overview.superficie_habitable_sqft = f.superficie_habitable_sqft,
        !.property_overview.superficie_commerciale_sqft = f.superficie_commerciale_sqft,
        !.property_overview.superficie_totale_sqft = f.superficie_totale_sqft,
        !.property_overview.superficie_terrain_sqft = f.superficie_terrain_sqft,
        !.revenus.revenu_brut_potentiel_annuel = f.revenu_brut_potentiel_annuel,
        !.depenses_vraies.taxes_municipales = f.taxes_municipales,
        !.depenses_vraies.taxes_scolaires = f.taxes_scolaires,
        !.raw_debug.price_source = price.price_source,
        !.raw_debug.phantom_filtered = price.phantom_filtered]

\* an exception leaves analyser_centris
Raised == [raised |-> TRUE, out |-> OutInit]
Returned(o) == [raised |-> FALSE, out |-> o]

\* `out` once centris_id and display_price are known
OutWith(centris_id, display_price) ==
    [OutInit EXCEPT !.raw_debug.centris_id = centris_id,
                    !.raw_debug.display_price = display_price]

\* `out` once a listing was looked for in the payload
OutPicked(o, pick) ==
    [o EXCEPT !.raw_debug.has_next_data = TRUE,
              !.raw_debug.picked_mode = pick.picked_mode,
              !.raw_debug.best_listing_score = pick.best_listing_score]

\* "fallback texte si pas de next_data ou extraction échouée"
AnalyseFallback(o, display_price, fb) ==
    Returned(FillAll([o EXCEPT !.raw_debug.picked_mode = "fallback_text"], fb,
                     ArbitratePrice(display_price, fb.prix,
                                    fb.revenu_brut_potentiel_annuel, "fallback")))

\* `if extracted: ... return out`
AnalyseExtracted(o, display_price, ex) ==
    IF ex.raised THEN Raised
    ELSE Returned(FillAll(o, ex.f,
                          ArbitratePrice(display_price, ex.f.prix,
                                         ex.f.revenu_brut_potentiel_annuel, "next_data")))

\* the text fallback whether or not a listing was picked
AnalysePayloadTextAlways(h, o, display_price, nodes, pick) ==
    AnalyseFallback(o, display_price, _fallback_text_extract(h))

\* `if next_data`: the listing picked is extracted and returned, the text
\* is not read; no listing picked: the text fallback
AnalysePayload(h, o, display_price, nodes, pick) ==
    IF pick.idx # 0
    THEN AnalyseExtracted(o, display_price, _extract_from_listing(nodes[pick.idx]))
    ELSE AnalyseFallback(o, display_price, _fallback_text_extract(h))

AnalyseNext(h, o, centris_id, display_price, next_data) ==
    IF PayloadTruthy(next_data)
    THEN AnalysePayload(h, OutPicked(o, PickListing(next_data.nodes, centris_id)),
                        display_price, next_data.nodes,
                        PickListing(next_data.nodes, centris_id))
    ELSE AnalyseFallback(o, display_price, _fallback_text_extract(h))

AnalyseWith(h, centris_id, display_price) ==
    IF display_price = Raise THEN Raised
    ELSE AnalyseNext(h, OutWith(centris_id, display_price), centris_id, display_price,
                     _extract_next_data_json(h))

\* [raised, out]: the record returned, or an exception
analyser_centris(h) ==
    IF h.kind = "nonstr"
    \* re.search on a value that is neither str nor falsy: TypeError
    THEN Raised
    ELSE AnalyseWith(h, _extract_centris_id_from_html(h),
                     _extract_display_price_from_header(h))

-----------------------------------------------------------------------------
(* template1_calcs.py: numbers *)

\* A float is held as the exact fraction num/den, den > 0, in lowest terms; an
\* Optional[float] is a float or FNone; FRaise is an exception leaving the
\* expression (ValueError, ZeroDivisionError).
RECURSIVE GCD(_, _)
GCD(a, b) == IF b = 0 THEN a ELSE GCD(b, a % b)

Abs(a) == IF a < 0 THEN -a ELSE a

FNone == [k |-> "None", num |-> 0, den |-> 1]
FRaise == [k |-> "raise", num |-> 0, den |-> 1]

Reduced(n, d, g) == [k |-> "float", num |-> n \div g, den |-> d \div g]
Frac(n, d) ==
    IF d > 0 THEN Reduced(n, d, GCD(Abs(n), d)) ELSE Reduced(-n, -d, GCD(Abs(n), -d))

Zero == Frac(0, 1)
One == Frac(1, 1)

EitherRaises(a, b) == a.k = "raise" \/ b.k = "raise"

\* a + b, a - b
FAdd(a, b) ==
    IF EitherRaises(a, b) THEN FRaise
    ELSE Frac(a.num * b.den + b.num * a.den, a.den * b.den)
FSub(a, b) ==
    IF EitherRaises(a, b) THEN FRaise
    ELSE Frac(a.num * b.den - b.num * a.den, a.den * b.den)

\* a * b, the common factors removed before the products
MulReduced(a, b, g, h) ==
    Frac((a.num \div g) * (b.num \div h), (a.den \div h) * (b.den \div g))
FMul(a, b) ==
    IF EitherRaises(a, b) THEN FRaise
    ELSE MulReduced(a, b, GCD(Abs(a.num), b.den), GCD(Abs(b.num), a.den))

\* a / b: ZeroDivisionError when b is 0
FDiv(a, b) ==
    IF EitherRaises(a, b) \/ b.num = 0 THEN FRaise
    ELSE FMul(a, Frac(b.den, b.num))

\* a ** n, n >= 0
RECURSIVE FPow(_, _)
FPow(a, n) == IF n = 0 THEN One ELSE FMul(a, FPow(a, n - 1))

\* a < b, a == 0
FLess(a, b) == a.num * b.den < b.num * a.den
FIsZero(a) == a.k = "float" /\ a.num = 0

\* float(s) of a text [-]body whose "." is at dot
FloatOfBody(neg, body, dot) ==
    Frac((IF neg THEN -1 ELSE 1)
            * DigitsToInt(SubSeq(body, 1, dot - 1) \o SubSeq(body, dot + 1, Len(body))),
         Pow10(IF dot > Len(body) THEN 0 ELSE Len(body) - dot))

\* float(s): the whitespace around the number is ignored; ValueError otherwise
FloatOfStripped(cs) ==
    IF FloatSyntax(cs) THEN FloatOfBody(cs[1] = "-", Unsigned(cs), DotIndex(Unsigned(cs)))
    ELSE FRaise
FloatOfText(cs) == FloatOfStripped(Strip(Replace(cs, "~", " ")))

\* float(x)
FloatOf(v) ==
    CASE v.t \in {"int", "bool"} -> Frac(v.n, 1)
      [] v.t = "float" -> Frac(v.n, 100)
      [] v.t = "str" -> FloatOfText(v.s)
      \* float(None): TypeError
      [] OTHER -> FRaise

\* try: ... except Exception: return None
Caught(r) == IF r.k = "raise" THEN FNone ELSE r

\* s.lower() of a text whose letters are n, a, N, A
Lower(cs) ==
    [i \in 1..Len(cs) |-> IF cs[i] = "N" THEN "n" ELSE IF cs[i] = "A" THEN "a" ELSE cs[i]]

FnumCleaned(cs) == Remove(Remove(Remove(Remove(cs, "$"), " "), "~"), ",")

FnumOfCleaned(s) ==
    IF s = <<>> \/ Lower(s) \in {<<"n", "/", "a">>, <<"n", "a">>} THEN FNone
    ELSE Caught(FloatOfText(s))

fnum(v) ==
    CASE v.t = "None" -> FNone
      [] v.t = "str" -> FnumOfCleaned(FnumCleaned(v.s))
      [] OTHER -> Caught(FloatOf(v))

\* nz without its test of None: float(None) raises
NzStrict(v) == FloatOf(v)

\* nz(x) of an input: float(x) is outside any try
nz(v) == IF v.t = "None" THEN Zero ELSE FloatOf(v)

\* nz(x) of a value that is a float already, or None
NzFloat(a) == IF a.k = "None" THEN Zero ELSE a

\* safe_div without its test of b
SafeDivUnchecked(a, b) ==
    IF EitherRaises(a, b) THEN FRaise
    ELSE IF a.k = "None" \/ b.k = "None" THEN FNone
    ELSE FDiv(a, b)

\* safe_div(a, b) of values that are floats already, or None: fnum leaves them
\* as they are
safe_div(a, b) ==
    IF EitherRaises(a, b) THEN FRaise
    ELSE IF a.k = "None" \/ b.k = "None" \/ b.num = 0 THEN FNone
    ELSE FDiv(a, b)

\* principal * (r * (1 + r) ** n) / ((1 + r) ** n - 1)
Annuity(principal, r, n) ==
    FDiv(FMul(principal, FMul(r, FPow(FAdd(One, r), n))),
         FSub(FPow(FAdd(One, r), n), One))

\* pmt_monthly without its test of the rate 0
PmtOfAnyRate(principal, r, n) ==
    IF r.k = "raise" THEN FRaise
    ELSE IF n <= 0 THEN Zero
    ELSE Annuity(principal, r, n)

PmtOf(principal, r, n) ==
    IF r.k = "raise" THEN FRaise
    ELSE IF n <= 0 THEN Zero
    ELSE IF r.num = 0 THEN FDiv(principal, Frac(n, 1))
    ELSE Annuity(principal, r, n)

\* r = annual_rate / payments_per_year is computed first: ZeroDivisionError when
\* payments_per_year is 0
pmt_monthly(principal, annual_rate, years, payments_per_year) ==
    PmtOf(principal, FDiv(annual_rate, Frac(payments_per_year, 1)),
          years * payments_per_year)

-----------------------------------------------------------------------------
(* template1_calcs.py: compute_template1 *)

QF_DEFAULT == Frac(80, 100)
DSCR_TARGET_DEFAULT == Frac(110, 100)
VACANCY_RATE_DEFAULT == Frac(3, 100)
SALARIES_RATE_DEFAULT == Frac(5, 100)
CAP_TARGET_OFFER_DEFAULT == Frac(5, 100)
PAYMENTS_PER_YEAR_DEFAULT == 12
MAINTENANCE_FIXED_DEFAULT == 610
CONCIERGE_FIXED_DEFAULT == 365

t1_price(inp) == fnum(inp.price)
gross(inp) == fnum(inp.revenu_brut_annuel)

ConciergeOr(c) == IF c.k = "None" THEN Frac(CONCIERGE_FIXED_DEFAULT, 1) ELSE c
concierge(inp) == ConciergeOr(fnum(inp.conciergerie))

\* an absent conciergerie counts for nothing
ConciergeZero(inp) == NzFloat(fnum(inp.conciergerie))

DepensesVraiesWith(inp, c) ==
    FAdd(FAdd(FAdd(FAdd(FAdd(FAdd(FAdd(
        nz(inp.taxes_scolaires),
        nz(inp.taxes_municipales)),
        nz(inp.assurances)),
        nz(inp.services_publics)),
        nz(inp.electricite)),
        nz(inp.chauffage)),
        nz(inp.deneigement)),
        NzFloat(c))

depenses_vraies(inp) == DepensesVraiesWith(inp, concierge(inp))

\* x - y, x * y when x is known, None otherwise
MinusIfKnown(a, b) == IF a.k = "None" THEN FNone ELSE FSub(a, b)
TimesIfKnown(a, b) == IF a.k = "None" THEN FNone ELSE FMul(a, b)

noi_avant_norm(inp) == MinusIfKnown(gross(inp), depenses_vraies(inp))

vacances(inp) == TimesIfKnown(gross(inp), inp.vacances_rate)
salaires(inp) == TimesIfKnown(gross(inp), inp.salaires_rate)
entretien(inp) == inp.entretien_fixed

depenses_fausses(inp) ==
    FAdd(FAdd(NzFloat(vacances(inp)), NzFloat(salaires(inp))), NzFloat(entretien(inp)))
depenses_totales(inp) == FAdd(depenses_vraies(inp), depenses_fausses(inp))

\* the normalisation left out of the NOI
NoiWithoutNorm(inp) == MinusIfKnown(gross(inp), depenses_vraies(inp))

noi(inp) == MinusIfKnown(gross(inp), depenses_totales(inp))

cap_rate(inp) == safe_div(noi(inp), t1_price(inp))

loan(inp) == TimesIfKnown(t1_price(inp), inp.qf)
down(inp) == MinusIfKnown(t1_price(inp), loan(inp))

pmt(inp) ==
    IF loan(inp).k # "float" THEN loan(inp)
    ELSE pmt_monthly(loan(inp), inp.taux, inp.amort_years, inp.payments_per_year)
ds_annual(inp) == TimesIfKnown(pmt(inp), Frac(inp.payments_per_year, 1))

dscr(inp) == safe_div(noi(inp), ds_annual(inp))

noi_required(inp) == TimesIfKnown(ds_annual(inp), inp.dscr_target)

cashflow(inp) ==
    IF noi(inp).k = "None" \/ ds_annual(inp).k = "None" THEN FNone
    ELSE FSub(noi(inp), ds_annual(inp))

offre_max(inp) ==
    IF noi(inp).k # "None" /\ FLess(Zero, inp.cap_target_offer)
    THEN FDiv(noi(inp), inp.cap_target_offer) ELSE FNone
valeur(inp) == offre_max(inp)

refinance_cash(inp) ==
    IF valeur(inp).k = "None" \/ t1_price(inp).k = "None" THEN FNone
    ELSE FSub(FMul(valeur(inp), inp.qf), FMul(t1_price(inp), inp.qf))

noi_pct(inp) == safe_div(noi(inp), gross(inp))

\* the dict returned; units, qf, taux, amort_years, dscr_target and
\* cap_target_offer are copied from inp
Template1Out(inp) ==
    [price |-> t1_price(inp),
     revenu_brut_annuel |-> gross(inp),
     depenses_vraies |-> depenses_vraies(inp),
     depenses_fausses |-> depenses_fausses(inp),
     depenses_totales |-> depenses_totales(inp),
     noi_avant_norm |-> noi_avant_norm(inp),
     noi |-> noi(inp),
     cap_rate |-> cap_rate(inp),
     noi_pct |-> noi_pct(inp),
     loan |-> loan(inp),
     down_payment |-> down(inp),
     pmt_monthly |-> pmt(inp),
     ds_annual |-> ds_annual(inp),
     dscr |-> dscr(inp),
     noi_required |-> noi_required(inp),
     cashflow |-> cashflow(inp),
     offre_max |-> offre_max(inp),
     valeur |-> valeur(inp),
     refinance_cash |-> refinance_cash(inp)]

Template1Keys ==
    {"price", "revenu_brut_annuel", "depenses_vraies", "depenses_fausses",
     "depenses_totales", "noi_avant_norm", "noi", "cap_rate", "noi_pct", "loan",
     "down_payment", "pmt_monthly", "ds_annual", "dscr", "noi_required", "cashflow",
     "offre_max", "valeur", "refinance_cash"}

\* the dict before the call: nothing is computed
NoTemplate1Out == [f \in Template1Keys |-> FNone]

AnyRaises(o) == \E f \in DOMAIN o : o[f].k = "raise"

\* compute_template1(inp): the dict returned, or raised when an exception leaves
compute_template1(inp) ==
    [raised |-> AnyRaises(Template1Out(inp)), out |-> Template1Out(inp)]

-----------------------------------------------------------------------------
(* centris_watcher.py: _post_to_analyzer *)

\* A response of requests.post is [k, code, json]: k is "status" (an HTTP
\* response of status code, whose body is a dict, a dict with an "error" key, a
\* JSON value that is no dict, or no JSON), "timeout"
\* (requests.exceptions.Timeout) or "error" (another exception).  The triple
\* returned is [status, text, data]; status 0 stands for None.
ANALYZER_RETRY_DEFAULT == 2

RetryStatuses == {429, 500, 502, 503, 504}

HttpResponse(code, json) == [k |-> "status", code |-> code, json |-> json]
PostTimeout == [k |-> "timeout", code |-> 0, json |-> "none"]
PostException == [k |-> "error", code |-> 0, json |-> "none"]

Triple(status, text, data) == [status |-> status, text |-> text, data |-> data]
NoTriple == Triple(0, "none", "none")

\* (None, None, {"_error": "analyzer_network_error", "_message": ...})
NetworkError(message) == Triple(0, "None", "network_error:" \o message)

\* `return resp.status_code, resp.text, resp.json()`, None when json() raises
Status200(resp) == Triple(200, "text", IF resp.json = "invalid" THEN "None" ELSE resp.json)

\* "Non-200: retourne un preview"
StatusOther(resp) == Triple(resp.code, "preview", "None")

Continue(n) == [done |-> FALSE, attempt |-> n + 1, result |-> NoTriple]
Return(n, t) == [done |-> TRUE, attempt |-> n, result |-> t]

\* the loop body with a retry on every status but 200
PostAttemptRetryAll(retry, n, resp) ==
    IF resp.k = "status" /\ resp.code = 200 THEN Return(n, Status200(resp))
    ELSE IF n < retry THEN Continue(n)
    ELSE Return(n, IF resp.k = "status" THEN StatusOther(resp)
                         ELSE NetworkError("timeout"))

\* one turn of `for attempt in range(ANALYZER_RETRY + 1)`, resp the outcome of
\* requests.post
PostAttempt(retry, n, resp) ==
    IF resp.k = "status" THEN
        IF resp.code = 200 THEN Return(n, Status200(resp))
        ELSE IF resp.code \in RetryStatuses /\ n < retry THEN Continue(n)
        ELSE Return(n, StatusOther(resp))
    ELSE IF resp.k = "timeout" THEN
        IF n < retry THEN Continue(n)
        ELSE Return(n, NetworkError("timeout"))
    ELSE Return(n, NetworkError("exception"))

\* _post_to_analyzer(payload) when requests.post gives the responses resps in
\* turn: the triple returned and the number of POSTs made
RECURSIVE PostLoop(_, _, _)
PostLoop(retry, n, resps) ==
    IF n >= retry + 1 \/ resps = <<>>
    THEN [result |-> NetworkError("unknown"), posts |-> n]
    ELSE IF PostAttempt(retry, n, Head(resps)).done
    THEN [result |-> PostAttempt(retry, n, Head(resps)).result, posts |-> n + 1]
    ELSE PostLoop(retry, n + 1, Tail(resps))

_post_to_analyzer(retry, resps) == PostLoop(retry, 0, resps)

-----------------------------------------------------------------------------
(* centris_watcher.py: the scan of the search page *)

\* A link of the search page is [kind, num]: the word of its path that the
\* filter of get_listing_urls_from_search reads, and the digits that follow the
\* last "/" of its path.
Href(kind, num) == [kind |-> kind, num |-> num]

NoId == <<>>

\* re.search(r"/(\d{7,8})(?:[^\d]|$)", url): a run of 7 or 8 digits that no
\* digit follows
extract_listing_id(url) == IF Len(url.num) \in 7..8 THEN url.num ELSE NoId

\* the hrefs that get_listing_urls_from_search keeps
Kept(href) == href.kind # "plexes-for-sale" /\ href.kind \in {"duplex", "triplex", "quadruplex", "plex"}

\* list(dict.fromkeys(urls)): the first occurrence of each URL, in order
RECURSIVE FromKeys(_, _)
FromKeys(hrefs, done) ==
    IF hrefs = <<>> THEN <<>>
    ELSE IF Head(hrefs) \in done THEN FromKeys(Tail(hrefs), done)
    ELSE <<Head(hrefs)>> \o FromKeys(Tail(hrefs), done \cup {Head(hrefs)})

get_listing_urls_from_search(hrefs) == FromKeys(SelectSeq(hrefs, Kept), {})

\* A fetched page is [ok, empty, marker, centris, ids]: the GET succeeded, the
\* text is empty, it holds one of the bad markers, it holds "centris", and the
\* listing ids it holds.
FetchFailed == [ok |-> FALSE, empty |-> TRUE, marker |-> FALSE, centris |-> FALSE, ids |-> {}]
Page(empty, marker, centris, ids) == [ok |-> TRUE, empty |-> empty, marker |-> marker, centris |-> centris, ids |-> ids]

looks_blocked(page) == page.empty \/ page.marker

looks_like_listing(page, listing_id) ==
    IF page.empty \/ listing_id = NoId THEN FALSE
    ELSE IF ~page.centris THEN FALSE
    ELSE listing_id \in page.ids

\* `looks_like_listing(html, listing_id) if listing_id else False`
IsListing(page, listing_id) == IF listing_id # NoId THEN looks_like_listing(page, listing_id) ELSE FALSE

\* the checks of analyze_listing with the listing check first
ValidationListingFirst(page, listing_id) ==
    IF listing_id # NoId /\ ~IsListing(page, listing_id) THEN "html_not_listing_page"
    ELSE IF looks_blocked(page) THEN "html_blocked_or_consent"
    ELSE "ok"

\* the two checks of analyze_listing on a fetched page
Validation(page, listing_id) ==
    IF looks_blocked(page) THEN "html_blocked_or_consent"
    ELSE IF listing_id # NoId /\ ~IsListing(page, listing_id) THEN "html_not_listing_page"
    ELSE "ok"

\* The record that analyze_listing returns is [dict, error, key]: it is a dict,
\* its "_error" value ("None" without one), and whether it has an "error" key.
ErrorRecord(e) == [dict |-> TRUE, error |-> e, key |-> FALSE]
AnalyzerRecord(json) == [dict |-> TRUE, error |-> "None", key |-> json = "app_error"]
NoRecord == [dict |-> FALSE, error |-> "None", key |-> FALSE]

IsNetworkError(t) == t.data \in {"network_error:timeout", "network_error:exception", "network_error:unknown"}
IsDictData(t) == t.data \in {"dict", "app_error"} \/ IsNetworkError(t)

\* the end of analyze_listing, from the triple of _post_to_analyzer
AfterPost(t) ==
    IF IsNetworkError(t) THEN ErrorRecord("analyzer_network_error")
    ELSE IF t.status # 200 \/ ~IsDictData(t) THEN ErrorRecord("analyzer_http_error")
    ELSE AnalyzerRecord(t.data)

Analysis(data, n) == [data |-> data, posts |-> n]

AnalyzeValidated(v, retry, resps) ==
    IF v # "ok" THEN Analysis(ErrorRecord(v), 0)
    ELSE Analysis(AfterPost(_post_to_analyzer(retry, resps).result), _post_to_analyzer(retry, resps).posts)

\* analyze_listing(url) when the GET gives page and the POSTs give resps: the
\* record returned and the number of POSTs made
analyze_listing(url, page, retry, resps) ==
    IF ~page.ok THEN Analysis(ErrorRecord("fetch_failed"), 0)
    ELSE AnalyzeValidated(Validation(page, extract_listing_id(url)), retry, resps)

\* What send_discord_message(data, url) does is [raised, message, computed]: an
\* exception left it, the message whose POST returned ("none" without one), and
\* whether compute_template1 ran; posted is FALSE when requests.post raises.
Sent(raised, message, computed) == [raised |-> raised, message |-> message, computed |-> computed]

MessageOf(data) ==
    IF data.dict /\ data.error # "None" THEN "warning"
    ELSE IF data.dict /\ data.key THEN "api_error"
    ELSE "template1"

send_discord_message(data, webhook, posted) ==
    IF ~webhook THEN Sent(FALSE, "none", FALSE)
    ELSE IF posted THEN Sent(FALSE, MessageOf(data), MessageOf(data) = "template1")
    ELSE Sent(TRUE, "none", MessageOf(data) = "template1")

\* `if not listing_id:` alone
SkippedWithoutId(listing_id, s) == listing_id = NoId

\* `if not listing_id or listing_id in seen: continue`
Skipped(listing_id, s) == listing_id = NoId \/ listing_id \in s

\* only the results without "_error" are sent and marked
IsDictWithoutError(data) == data.dict /\ data.error = "None"

\* `if isinstance(data, dict):`
IsDict(data) == data.dict

\* the file after a listing, were it written before the message is sent
SavedBeforeSend(file, s, listing_id, sent) == s \cup {listing_id}

\* SEEN_FILE after `send_discord_message(...); seen.add(listing_id);
\* save_seen_ids(seen)`: an exception of the first leaves the file as it was
SavedAfterSend(file, s, listing_id, sent) == IF sent.raised THEN file ELSE s \cup {listing_id}
-----------------------------------------------------------------------------
(* The inputs of _money_to_int *)

MaxStrLen == 4

MoneyAlphabet == {"0", "1", "5", ",", ".", "-", " ", "$"}

\* the sequences over S of length n
RECURSIVE SeqsOfLen(_, _)
SeqsOfLen(S, n) ==
    IF n = 0 THEN {<<>>}
    ELSE {Append(q, e) : q \in SeqsOfLen(S, n - 1), e \in S}

SeqsUpTo(S, n) == UNION {SeqsOfLen(S, i) : i \in 0..n}

\* the amounts of the docstring and of the examples
Txt3120 == <<"3", "~", "1", "2", "0", ",", "0", "0", " ", "$">>
Txt908000 == <<"9", "0", "8", "^", "0", "0", "0", " ", "$">>
Txt9844 == <<"9", ",", "8", "4", "4">>
Txt1234_56 == <<"1", ",", "2", "3", "4", ".", "5", "6">>
Txt1_234_56 == <<"1", ",", "2", "3", "4", ",", "5", "6">>

MoneyTexts ==
    SeqsUpTo(MoneyAlphabet, MaxStrLen)
        \cup {Txt3120, Txt908000, Txt9844, Txt1234_56, Txt1_234_56}

MoneyInputs ==
    {PyNone, PyBool(TRUE), PyBool(FALSE), PyNaN, PyInf}
        \cup {PyInt(i) : i \in {-5, 0, 3120}}
        \cup {PyFloat(h) : h \in {-250, 50, 250, 350, 312000}}
        \cup {PyStr(cs) : cs \in MoneyTexts}

-----------------------------------------------------------------------------
(* The documents *)

MaxOffers == 1
MaxScripts == 1
MaxTokens == 3
MaxNodes == 2

Txt908 == <<"9", "0", "8", " ", "0", "0", "0">>
Txt600 == <<"6", "0", "0", " ", "0", "0", "0">>
Txt450 == <<"4", "5", "0", " ", "0", "0", "0">>
Txt26908 == <<"2", "6", " ", "9", "0", "8", " ", "0", "0", "0">>
Txt5000 == <<"5", " ", "0", "0", "0">>
TxtNA == <<"N", "/", "A">>
Txt300 == <<"3", "0", "0", " ", "0", "0", "0">>
Txt15M == <<"1", "5", " ", "0", "0", "0", " ", "0", "0", "0">>

\* JSON-LD
Offer(p) == [isdict |-> TRUE, price |-> p]
NotAnOffer == [isdict |-> FALSE, price |-> Absent]
ItemOffersDict(p) == [k |-> "dict", offers |-> <<Offer(p)>>]
ItemOffersList(offers) == [k |-> "list", offers |-> offers]
ItemNoOffers == [k |-> "nooffers", offers |-> <<>>]
ScriptJson(items) == [k |-> "json", items |-> items]
ScriptBlank == [k |-> "blank", items |-> <<>>]
ScriptBad == [k |-> "bad", items |-> <<>>]

LdPrices == {PyNone, PyInt(100), PyInt(500000), PyNaN, PyStr(TxtNA)}

LdScripts ==
    {ScriptBlank, ScriptBad, ScriptJson(<<ItemNoOffers>>)}
        \cup {ScriptJson(<<ItemOffersDict(p)>>) : p \in LdPrices}
        \cup {ScriptJson(<<ItemOffersList(offers)>>) :
                offers \in SeqsUpTo({Offer(p) : p \in LdPrices} \cup {NotAnOffer}, MaxOffers)}

\* a price under the floor, or none, before a price over it
LdTwoOffers ==
    {<<ScriptJson(<<ItemOffersList(<<Offer(p), Offer(PyInt(500000))>>)>>)>> :
        p \in {PyInt(100), PyStr(TxtNA)}}

LdTwoItems ==
    {<<ScriptJson(<<ItemOffersDict(p), ItemOffersDict(PyInt(500000))>>)>> :
        p \in {PyInt(100), PyStr(TxtNA)}}

LdTwoScripts ==
    {<<s, ScriptJson(<<ItemOffersDict(PyInt(500000))>>)>> :
        s \in {ScriptBad, ScriptJson(<<ItemOffersDict(PyInt(100))>>)}}

RichLd == SeqsUpTo(LdScripts, MaxScripts) \cup LdTwoOffers \cup LdTwoItems \cup LdTwoScripts

LdNone == <<>>
LdOf(p) == <<ScriptJson(<<ItemOffersDict(p)>>)>>

BasicLd == {LdNone, LdOf(PyInt(500000)), LdOf(PyStr(Txt600)), LdOf(PyInt(26908000))}

\* metas
NoMeta == <<PyNone, PyNone, PyNone>>

RichMeta ==
    {<<a, PyNone, c>> : a \in {PyNone, PyStr(Txt5000), PyStr(Txt450)},
                         c \in {PyNone, PyStr(Txt908), PyStr(Txt26908)}}

BasicMeta == {NoMeta, <<PyNone, PyNone, PyStr(Txt450)>>}

\* visible text
TokVendre(s) == [k |-> "vendre", s |-> s, n |-> 1, c |-> 40]
TokAmt(s) == [k |-> "amt", s |-> s, n |-> 1, c |-> 20]
TokLabel(k) == [k |-> k, s |-> <<>>, n |-> 1, c |-> 30]
\* a line that ends with digits and holds no "$"
TokNum(s) == [k |-> "num", s |-> s, n |-> 1, c |-> 20]
\* more lines than the top scan reads, in fewer characters than the fallback reads
GapTop == [k |-> "gap", s |-> <<>>, n |-> 420, c |-> 5000]
\* as many lines as the window holds
GapWindow == [k |-> "gap", s |-> <<>>, n |-> 80, c |-> 2000]
\* more lines than the anchor scan reads, more characters than the fallback reads
GapFar == [k |-> "gap", s |-> <<>>, n |-> 700, c |-> 20000]

Tokens ==
    {TokVendre(<<>>), TokVendre(Txt908), TokAmt(Txt600), TokAmt(Txt5000),
     TokNum(<<"3">>), TokLabel("rev"), TokLabel("mun"), TokLabel("duplex"), GapTop,
     GapWindow}

RichText == SeqsUpTo(Tokens, MaxTokens)

\* the amounts and the labels below the lines the header reads
TextBelow ==
    <<TokLabel("triplex"), GapTop, TokAmt(Txt450), TokLabel("rev"), TokAmt(Txt5000),
      TokLabel("mun"), TokAmt(Txt5000), TokLabel("sco"), TokAmt(Txt5000)>>

BasicText ==
    {<<>>,
     <<TokVendre(Txt908)>>,
     TextBelow,
     <<GapFar, TokVendre(Txt908)>>,
     <<TokAmt(Txt26908)>>,
     <<TokLabel("rev"), TokAmt(<<"9", "0", "8">>)>>,
     <<GapTop, TokAmt(Txt300), TokLabel("rev"), TokAmt(Txt5000)>>,
     <<GapTop, TokAmt(Txt15M)>>}

\* __NEXT_DATA__
IdA == <<"1", "2", "3", "4", "5", "6", "7">>
IdB == <<"7", "6", "5", "4", "3", "2", "1">>

Node(idkey, idval, price, prix, gpr, rbp, taxes, municipal, school, units, ptype, extra) ==
    [idkey |-> idkey, idval |-> idval, price |-> price, prix |-> prix, gpr |-> gpr,
     rbp |-> rbp, taxes |-> taxes, municipal |-> municipal, school |-> school,
     units |-> units, ptype |-> ptype, extra |-> extra]

\* a dict with none of the keys: the root of the payload, a props object
NodePlain == Node("", Absent, Absent, Absent, Absent, Absent, "absent", Absent, Absent,
                  Absent, "", {})
\* the listing of the page, every field present
NodeFull == Node("id", PyInt(1234567), PyInt(550000), Absent, PyInt(50000), Absent, "dict",
                 PyInt(3000), PyStr(Txt5000), PyInt(4), "Triplex", {"address"})
\* the listing of the page with a price over the ceiling and nothing else
NodeBare == Node("listingid", PyStr(IdA), PyStr(Txt26908), Absent, Absent, Absent, "absent",
                 Absent, Absent, Absent, "", {})
\* another listing, with a revenue that makes its price a phantom
NodeOther == Node("id", PyInt(7654321), PyNone, PyInt(600000), PyNone, PyInt(5000), "other",
                  Absent, Absent, PyStr(Txt5000), "Duplex", {})
\* a price alone: score 7
NodePriceOnly == Node("", Absent, PyInt(450000), Absent, Absent, Absent, "absent", Absent,
                      Absent, Absent, "", {})
\* a price and a city: score 8, as NodeBare
NodeCity == Node("", Absent, Absent, PyStr(Txt450), Absent, Absent, "absent", Absent, Absent,
                 Absent, "", {"city"})
\* a listing whose price json.loads read as NaN
NodeNaN == Node("id", PyInt(1234567), PyNaN, Absent, PyInt(50000), Absent, "absent", Absent,
                Absent, Absent, "", {})

Nodes == {NodePlain, NodeFull, NodeBare, NodeOther, NodePriceOnly, NodeCity, NodeNaN}

Payload(k, nodes) == [k |-> k, nodes |-> nodes]

NoNext == Payload("absent", <<>>)

RichNext ==
    {Payload(k, <<>>) : k \in {"absent", "blank", "bad", "falsy"}}
        \cup {Payload("json", nodes) : nodes \in SeqsUpTo(Nodes, MaxNodes)}

BasicNext ==
    {NoNext,
     Payload("json", <<NodePlain, NodeFull>>),
     Payload("json", <<NodeOther>>),
     Payload("json", <<NodeBare>>)}

\* ids
NoIds == <<<<>>, <<>>, <<>>>>
RichIds == {NoIds, <<IdA, <<>>, IdA>>, <<<<>>, IdA, IdB>>, <<<<>>, <<>>, IdB>>}
BasicIds == {NoIds, <<IdA, <<>>, IdA>>}

Doc(kind, ld, meta, text, next, ids) ==
    [kind |-> kind, ld |-> ld, meta |-> meta, text |-> text, next |-> next, ids |-> ids]

NoDocument(kind) == Doc(kind, <<>>, NoMeta, <<>>, NoNext, NoIds)

\* html is a document with its parts drawn from these sets
Family(lds, metas, texts, nexts, idss) ==
    \E ld \in lds, meta \in metas, text \in texts, next \in nexts, ids \in idss :
        html = Doc("str", ld, meta, text, next, ids)

\* every document is rich in one part and basic in the others
Documents ==
    \/ \E kind \in {"None", "empty", "nonstr"} : html = NoDocument(kind)
    \/ Family(RichLd, BasicMeta, {<<>>, <<TokVendre(Txt908)>>}, BasicNext, {NoIds})
    \/ Family({LdNone, LdOf(PyInt(100))}, RichMeta, {<<>>, <<TokVendre(Txt908)>>},
              BasicNext, {NoIds})
    \/ Family({LdNone}, {NoMeta}, RichText, BasicNext, {NoIds})
    \/ Family(BasicLd, {NoMeta}, BasicText, RichNext, RichIds)

-----------------------------------------------------------------------------
(* The inputs of compute_template1 *)

\* an expense is up to MaxAmount hundreds of dollars
MaxAmount == 2
\* an amortisation lasts up to MaxYears years, of up to MaxPayments payments; the
\* terms computed have up to MaxYears * MaxPayments payments, or the 12 payments
\* of one year at the rate 0
MaxYears == 1
MaxPayments == 2

TxtDollars == <<"$", "1", ",", "0", "0", "0">>
TxtHalf == <<"1", "2", ".", "5">>
TxtDash == <<"-">>

Amounts == {PyInt(100 * k) : k \in 0..MaxAmount}
Expenses == {PyNone, PyStr(TxtHalf), PyStr(TxtNA)} \cup Amounts
Prices == {PyNone, PyInt(0), PyInt(10000), PyStr(TxtDollars), PyStr(TxtNA)}
Revenues == {PyNone, PyInt(0), PyInt(2000), PyStr(TxtDash), PyFloat(150050)}

ExpenseFields ==
    {"taxes_scolaires", "taxes_municipales", "assurances", "services_publics",
     "electricite", "chauffage", "deneigement", "conciergerie"}

\* Template1Inputs(): the defaults of the dataclass, but for the term: one year
\* of 12 payments at the rate 0
Template1Inputs ==
    [price |-> PyNone, units |-> PyNone, revenu_brut_annuel |-> PyNone,
     taxes_scolaires |-> PyNone, taxes_municipales |-> PyNone, assurances |-> PyNone,
     services_publics |-> PyNone, electricite |-> PyNone, chauffage |-> PyNone,
     deneigement |-> PyNone, conciergerie |-> PyNone,
     vacances_rate |-> VACANCY_RATE_DEFAULT,
     entretien_fixed |-> Frac(MAINTENANCE_FIXED_DEFAULT, 1),
     salaires_rate |-> SALARIES_RATE_DEFAULT,
     qf |-> QF_DEFAULT, taux |-> Zero, amort_years |-> 1,
     payments_per_year |-> PAYMENTS_PER_YEAR_DEFAULT,
     dscr_target |-> DSCR_TARGET_DEFAULT,
     cap_target_offer |-> CAP_TARGET_OFFER_DEFAULT]

\* build_template1_inputs(data): the five fields of the record of the analyser,
\* the other expenses None
build_template1_inputs(p, u, g, ts, tm) ==
    [Template1Inputs EXCEPT !.price = p, !.units = u, !.revenu_brut_annuel = g,
                            !.taxes_scolaires = ts, !.taxes_municipales = tm]

WithExpenses(i, e) == [f \in DOMAIN i |-> IF f \in ExpenseFields THEN e[f] ELSE i[f]]

\* every expense present or absent
PresentOrAbsent ==
    \E e \in [ExpenseFields -> {PyNone, PyInt(100)}] :
    \E p \in {PyNone, PyInt(10000)}, g \in {PyNone, PyInt(2000)} :
        inputs = WithExpenses(build_template1_inputs(p, PyNone, g, PyNone, PyNone), e)

\* one expense of any value, the others absent
OneExpense ==
    \E f \in ExpenseFields, v \in Expenses, g \in Revenues :
        inputs = [build_template1_inputs(PyInt(10000), PyInt(4), g, PyNone, PyNone)
                    EXCEPT ![f] = v]

\* the financing
Financing ==
    \E p \in Prices, g \in {PyNone, PyInt(0), PyInt(2000)} :
    \E q \in {Zero, QF_DEFAULT}, t \in {Zero, One} :
    \E y \in (-1)..MaxYears, n \in 0..MaxPayments :
        inputs = [build_template1_inputs(p, PyNone, g, PyInt(100), PyNone)
                    EXCEPT !.qf = q, !.taux = t, !.amort_years = y,
                           !.payments_per_year = n]

\* the rates of the normalisation and of the offer
Rates ==
    \E p \in {PyNone, PyInt(10000)}, g \in Revenues :
    \E v \in {Zero, VACANCY_RATE_DEFAULT}, s \in {Zero, SALARIES_RATE_DEFAULT} :
    \E m \in {Zero, Frac(MAINTENANCE_FIXED_DEFAULT, 1)} :
    \E c \in {Zero, CAP_TARGET_OFFER_DEFAULT} :
        inputs = [build_template1_inputs(p, PyNone, g, PyNone, PyInt(200))
                    EXCEPT !.vacances_rate = v, !.salaires_rate = s,
                           !.entretien_fixed = m, !.cap_target_offer = c]

\* 12 payments a year, at the rate 0 or at 1200 % a year (100 % a payment)
Monthly ==
    \E p \in Prices, g \in {PyNone, PyInt(2000)} :
    \E q \in {Zero, QF_DEFAULT}, t \in {Zero, Frac(PAYMENTS_PER_YEAR_DEFAULT, 1)} :
    \E y \in (-1)..1 :
        inputs = [build_template1_inputs(p, PyNone, g, PyNone, PyNone)
                    EXCEPT !.qf = q, !.taux = t, !.amort_years = y]

Template1Cases == PresentOrAbsent \/ OneExpense \/ Financing \/ Rates \/ Monthly

-----------------------------------------------------------------------------
(* The search pages, the fetched pages and the POST outcomes of the watcher *)

MaxScans == 3

Id8 == <<"1", "2", "3", "4", "5", "6", "7", "8">>
Id7 == <<"7", "6", "5", "4", "3", "2", "1">>
Num9 == <<"1", "2", "3", "4", "5", "6", "7", "8", "9">>
ListingIds == {Id8, Id7}

Duplex8 == Href("duplex", Id8)
Triplex8 == Href("triplex", Id8)
Duplex7 == Href("duplex", Id7)
Plex9 == Href("plex", Num9)
ForSale8 == Href("plexes-for-sale", Id8)
Maison7 == Href("maison", Id7)

\* the links of a search page, in order
SearchPages ==
    { <<Duplex8, Triplex8, Duplex7>>,
      <<Duplex7, Plex9, Duplex8>>,
      <<Duplex8, Duplex8, ForSale8>>,
      <<Maison7, Triplex8>>,
      <<>> }

\* the pages that a GET of the URL of listing_id can give
FetchedPages(listing_id) ==
    { FetchFailed,
      Page(TRUE, FALSE, FALSE, {}),
      Page(FALSE, TRUE, TRUE, {listing_id}),
      Page(FALSE, TRUE, TRUE, {}),
      Page(FALSE, FALSE, TRUE, {listing_id}),
      Page(FALSE, FALSE, TRUE, ListingIds \ {listing_id}),
      Page(FALSE, FALSE, FALSE, {listing_id}) }

\* the outcomes of the POSTs of one call of _post_to_analyzer
PostRuns ==
    { <<HttpResponse(200, "dict")>>,
      <<HttpResponse(200, "app_error")>>,
      <<HttpResponse(200, "list")>>,
      <<HttpResponse(200, "invalid")>>,
      <<HttpResponse(404, "invalid")>>,
      <<PostException>>,
      <<PostTimeout, HttpResponse(503, "invalid"), HttpResponse(200, "dict")>>,
      <<HttpResponse(503, "invalid"), HttpResponse(503, "invalid"), HttpResponse(503, "invalid")>>,
      <<PostTimeout, PostTimeout, PostTimeout>> }

NoCount == [i \in ListingIds \cup {NoId} |-> 0]
Listing(listing_id, page, a, sent) == [id |-> listing_id, page |-> page, posts |-> a.posts, data |-> a.data, sent |-> sent]
NoListing == Listing(NoId, FetchFailed, Analysis(NoRecord, 0), Sent(FALSE, "none", FALSE))

WatcherIdle ==
    /\ wpc = "idle"
    /\ DISCORD_WEBHOOK_URL = FALSE
    /\ seen_file = {}
    /\ seen = {}
    /\ urls = <<>>
    /\ scans = 0
    /\ analysed = NoCount
    /\ notified = NoCount
    /\ failed = NoCount
    /\ last = NoListing

-----------------------------------------------------------------------------
(* app.py: the runs of process_new_centris_listings and their links *)

\* the scheduler job and the /scan-une-fois route
Runs == {"job", "route"}

\* A link is [path, nomls]: its path and the value of its NoMLS parameter, ""
\* without one.
Link(path, nomls) == [path |-> path, nomls |-> nomls]

\* the value of NoMLS, or the whole URL without one
extract_listing_id_from_url(link) == IF link.nomls # "" THEN Link("", link.nomls) ELSE link

Mls1 == Link("duplex", "11111111")
Mls1Map == Link("carte", "11111111")
Mls2 == Link("triplex", "22222222")
Propriete == Link("fr/propriete/33333333", "")

\* the links of a search page, without repetition
AppSearchPages == { <<Mls1, Mls2>>, <<Mls2, Propriete>>, <<Mls1, Mls1Map>>, <<>> }

AppIds == {extract_listing_id_from_url(l) : l \in {Mls1, Mls1Map, Mls2, Propriete}}

NoEmail == [i \in AppIds |-> 0]

AppIdle ==
    /\ apc = [r \in Runs |-> "idle"]
    /\ processed_ids = [r \in Runs |-> {}]
    /\ links = [r \in Runs |-> <<>>]
    /\ processed_file = {}
    /\ emailed = NoEmail
    /\ marked = {}
-----------------------------------------------------------------------------
(* The specifications *)

MoneyIdle == mpc = "idle" /\ x = PyNone /\ ret = None
AnalyserIdle == pc = "idle" /\ html = NoDocument("None") /\ out = OutInit
CalcIdle == cpc = "idle" /\ inputs = Template1Inputs /\ results = NoTemplate1Out
PostIdle == ppc = "idle" /\ ANALYZER_RETRY = ANALYZER_RETRY_DEFAULT /\ attempt = 0 /\ posts = <<>> /\ triple = NoTriple

InitMoney ==
    /\ mpc = "call"
    /\ x \in MoneyInputs
    /\ ret = None
    /\ AnalyserIdle
    /\ CalcIdle
    /\ PostIdle
    /\ WatcherIdle
    /\ AppIdle

\* one call _money_to_int(x)
MoneyToInt ==
    /\ mpc = "call"
    /\ ret' = _money_to_int(x)
    /\ mpc' = "done"
    /\ UNCHANGED <<x, analyserVars, calcVars, postVars, watcherVars, appVars>>

NextMoney == MoneyToInt

SpecMoney == InitMoney /\ [][NextMoney]_vars

Init ==
    /\ pc = "call"
    /\ Documents
    /\ out = OutInit
    /\ MoneyIdle
    /\ CalcIdle
    /\ PostIdle
    /\ WatcherIdle
    /\ AppIdle

\* one call analyser_centris(html) that returns a record
AnalyserReturns ==
    /\ pc = "call"
    /\ \E r \in {analyser_centris(html)} :
        /\ ~r.raised
        /\ out' = r.out
    /\ pc' = "returned"
    /\ UNCHANGED <<html, moneyVars, calcVars, postVars, watcherVars, appVars>>

\* one call analyser_centris(html) that an exception leaves
AnalyserRaises ==
    /\ pc = "call"
    /\ \E r \in {analyser_centris(html)} : r.raised
    /\ pc' = "raised"
    /\ UNCHANGED <<html, out, moneyVars, calcVars, postVars, watcherVars, appVars>>

Next == AnalyserReturns \/ AnalyserRaises

Spec == Init /\ [][Next]_vars


InitCalc ==
    /\ cpc = "call"
    /\ Template1Cases
    /\ results = NoTemplate1Out
    /\ MoneyIdle
    /\ AnalyserIdle
    /\ PostIdle
    /\ WatcherIdle
    /\ AppIdle

\* one call compute_template1(inputs) that returns a dict
ComputeReturns ==
    /\ cpc = "call"
    /\ \E r \in {compute_template1(inputs)} :
        /\ ~r.raised
        /\ results' = r.out
    /\ cpc' = "returned"
    /\ UNCHANGED <<inputs, moneyVars, analyserVars, postVars, watcherVars, appVars>>

\* one call compute_template1(inputs) that an exception leaves
ComputeRaises ==
    /\ cpc = "call"
    /\ \E r \in {compute_template1(inputs)} : r.raised
    /\ cpc' = "raised"
    /\ UNCHANGED <<inputs, results, moneyVars, analyserVars, postVars, watcherVars, appVars>>

NextCalc == ComputeReturns \/ ComputeRaises

SpecCalc == InitCalc /\ [][NextCalc]_vars



MaxRetry == 2

PostStatuses == {200, 404} \cup RetryStatuses
JsonBodies == {"dict", "app_error", "list", "invalid"}
Responses ==
    {HttpResponse(200, j) : j \in JsonBodies}
        \cup {HttpResponse(c, "invalid") : c \in PostStatuses \ {200}}
        \cup {PostTimeout, PostException}

InitPost ==
    /\ ppc = "loop"
    /\ ANALYZER_RETRY \in (-1)..MaxRetry
    /\ attempt = 0
    /\ posts = <<>>
    /\ triple = NoTriple
    /\ MoneyIdle
    /\ AnalyserIdle
    /\ CalcIdle
    /\ WatcherIdle
    /\ AppIdle

\* one turn of the loop whose POST ends the call
PostReturns ==
    /\ ppc = "loop"
    /\ attempt < ANALYZER_RETRY + 1
    /\ \E resp \in Responses :
        /\ PostAttempt(ANALYZER_RETRY, attempt, resp).done
        /\ posts' = Append(posts, resp)
        /\ triple' = PostAttempt(ANALYZER_RETRY, attempt, resp).result
    /\ ppc' = "returned"
    /\ UNCHANGED <<ANALYZER_RETRY, attempt, moneyVars, analyserVars, calcVars, watcherVars, appVars>>

\* one turn of the loop that sleeps and continues
PostRetries ==
    /\ ppc = "loop"
    /\ attempt < ANALYZER_RETRY + 1
    /\ \E resp \in Responses :
        /\ ~PostAttempt(ANALYZER_RETRY, attempt, resp).done
        /\ posts' = Append(posts, resp)
        /\ attempt' = PostAttempt(ANALYZER_RETRY, attempt, resp).attempt
    /\ UNCHANGED <<ppc, ANALYZER_RETRY, triple, moneyVars, analyserVars, calcVars, watcherVars, appVars>>

\* the loop is over without a return
PostLoopEnds ==
    /\ ppc = "loop"
    /\ attempt >= ANALYZER_RETRY + 1
    /\ triple' = NetworkError("unknown")
    /\ ppc' = "returned"
    /\ UNCHANGED <<ANALYZER_RETRY, attempt, posts, moneyVars, analyserVars, calcVars, watcherVars, appVars>>

NextPost == PostReturns \/ PostRetries \/ PostLoopEnds

SpecPost == InitPost /\ [][NextPost]_vars

InitWatcher ==
    /\ wpc = "start"
    /\ DISCORD_WEBHOOK_URL \in BOOLEAN
    /\ seen_file = {}
    /\ seen = {}
    /\ urls = <<>>
    /\ scans = 0
    /\ analysed = NoCount
    /\ notified = NoCount
    /\ failed = NoCount
    /\ last = NoListing
    /\ MoneyIdle
    /\ AnalyserIdle
    /\ CalcIdle
    /\ PostIdle
    /\ AppIdle

Others == <<moneyVars, analyserVars, calcVars, postVars, appVars>>

\* run_one_full_scan reads SEEN_FILE and the search page
ScanStarts ==
    /\ wpc = "start"
    /\ scans < MaxScans
    /\ seen' = seen_file
    /\ \E hrefs \in SearchPages : urls' = get_listing_urls_from_search(hrefs)
    /\ scans' = scans + 1
    /\ wpc' = "loop"
    /\ UNCHANGED <<DISCORD_WEBHOOK_URL, seen_file, analysed, notified, failed, last, Others>>

\* raise_for_status or requests.get raises in get_listing_urls_from_search
SearchRaises ==
    /\ wpc = "start"
    /\ scans < MaxScans
    /\ seen' = {}
    /\ scans' = scans + 1
    /\ wpc' = "crashed"
    /\ UNCHANGED <<DISCORD_WEBHOOK_URL, seen_file, urls, analysed, notified, failed, last, Others>>

\* a turn of the loop that ends at `continue`
UrlSkipped ==
    /\ wpc = "loop"
    /\ urls # <<>>
    /\ Skipped(extract_listing_id(Head(urls)), seen)
    /\ urls' = Tail(urls)
    /\ UNCHANGED <<wpc, DISCORD_WEBHOOK_URL, seen_file, seen, scans, analysed, notified, failed, last, Others>>

Counted(c, listing_id) == [c EXCEPT ![listing_id] = @ + 1]

\* the rest of a turn whose analysis gave a
TurnEnds(listing_id, page, a, sent) ==
    /\ ~sent.raised
    /\ last' = Listing(listing_id, page, a, sent)
    /\ notified' = IF sent.message # "none" THEN Counted(notified, listing_id) ELSE notified
    /\ seen' = IF IsDict(a.data) THEN seen \cup {listing_id} ELSE seen
    /\ seen_file' = IF IsDict(a.data) THEN SavedAfterSend(seen_file, seen, listing_id, sent) ELSE seen_file

\* a turn of the loop that analyses a listing and comes to its end
ListingDone ==
    /\ wpc = "loop"
    /\ urls # <<>>
    /\ ~Skipped(extract_listing_id(Head(urls)), seen)
    /\ \E page \in FetchedPages(extract_listing_id(Head(urls))), resps \in PostRuns, posted \in BOOLEAN :
        \E a \in {analyze_listing(Head(urls), page, ANALYZER_RETRY, resps)} :
            TurnEnds(extract_listing_id(Head(urls)), page, a,
                     IF IsDict(a.data) THEN send_discord_message(a.data, DISCORD_WEBHOOK_URL, posted)
                     ELSE Sent(FALSE, "none", FALSE))
    /\ analysed' = Counted(analysed, extract_listing_id(Head(urls)))
    /\ urls' = Tail(urls)
    /\ UNCHANGED <<wpc, DISCORD_WEBHOOK_URL, scans, failed, Others>>

\* the rest of a turn that an exception of send_discord_message ends
TurnRaises(listing_id, page, a, sent) ==
    /\ IsDict(a.data)
    /\ sent.raised
    /\ last' = Listing(listing_id, page, a, sent)
    /\ seen_file' = SavedAfterSend(seen_file, seen, listing_id, sent)

\* a turn of the loop that analyses a listing and that an exception leaves
ListingRaises ==
    /\ wpc = "loop"
    /\ urls # <<>>
    /\ ~Skipped(extract_listing_id(Head(urls)), seen)
    /\ \E page \in FetchedPages(extract_listing_id(Head(urls))), resps \in PostRuns, posted \in BOOLEAN :
        \E a \in {analyze_listing(Head(urls), page, ANALYZER_RETRY, resps)} :
            TurnRaises(extract_listing_id(Head(urls)), page, a,
                       send_discord_message(a.data, DISCORD_WEBHOOK_URL, posted))
    /\ analysed' = Counted(analysed, extract_listing_id(Head(urls)))
    /\ failed' = Counted(failed, extract_listing_id(Head(urls)))
    /\ seen' = {}
    /\ urls' = <<>>
    /\ wpc' = "crashed"
    /\ UNCHANGED <<DISCORD_WEBHOOK_URL, scans, notified, Others>>

\* the loop is over: main_loop sleeps, then scans again
ScanEnds ==
    /\ wpc = "loop"
    /\ urls = <<>>
    /\ seen' = {}
    /\ wpc' = "start"
    /\ UNCHANGED <<DISCORD_WEBHOOK_URL, seen_file, urls, scans, analysed, notified, failed, last, Others>>

\* `except Exception:` of the main guard: 60 seconds, then main_loop again
Restart ==
    /\ wpc = "crashed"
    /\ wpc' = "start"
    /\ UNCHANGED <<DISCORD_WEBHOOK_URL, seen_file, seen, urls, scans, analysed, notified, failed, last, Others>>

NextWatcher == ScanStarts \/ SearchRaises \/ UrlSkipped \/ ListingDone \/ ListingRaises \/ ScanEnds \/ Restart

SpecWatcher == InitWatcher /\ [][NextWatcher]_vars


InitApp ==
    /\ apc = [r \in Runs |-> "start"]
    /\ processed_ids = [r \in Runs |-> {}]
    /\ links = [r \in Runs |-> <<>>]
    /\ processed_file = {}
    /\ emailed = NoEmail
    /\ marked = {}
    /\ MoneyIdle
    /\ AnalyserIdle
    /\ CalcIdle
    /\ PostIdle
    /\ WatcherIdle

NotApp == <<moneyVars, analyserVars, calcVars, postVars, watcherVars>>

\* a run loads the file and reads the search page
RunStarts(r) ==
    /\ apc[r] = "start"
    /\ processed_ids' = [processed_ids EXCEPT ![r] = processed_file]
    /\ \E page \in AppSearchPages : links' = [links EXCEPT ![r] = page]
    /\ apc' = [apc EXCEPT ![r] = "loop"]
    /\ UNCHANGED <<processed_file, emailed, marked, NotApp>>

\* a turn of the loop on a link whose id is in processed_ids
LinkSkipped(r) ==
    /\ apc[r] = "loop"
    /\ links[r] # <<>>
    /\ extract_listing_id_from_url(Head(links[r])) \in processed_ids[r]
    /\ links' = [links EXCEPT ![r] = Tail(@)]
    /\ UNCHANGED <<apc, processed_ids, processed_file, emailed, marked, NotApp>>

\* a turn of the loop whose download is empty or whose analysis raises
LinkFails(r) ==
    /\ apc[r] = "loop"
    /\ links[r] # <<>>
    /\ extract_listing_id_from_url(Head(links[r])) \notin processed_ids[r]
    /\ links' = [links EXCEPT ![r] = Tail(@)]
    /\ UNCHANGED <<apc, processed_ids, processed_file, emailed, marked, NotApp>>

\* a turn of the loop that analyses the page, sends the email and marks the id
LinkProcessed(r) ==
    /\ apc[r] = "loop"
    /\ links[r] # <<>>
    /\ extract_listing_id_from_url(Head(links[r])) \notin processed_ids[r]
    /\ emailed' = [emailed EXCEPT ![extract_listing_id_from_url(Head(links[r]))] = @ + 1]
    /\ processed_ids' = [processed_ids EXCEPT ![r] = @ \cup {extract_listing_id_from_url(Head(links[r]))}]
    /\ marked' = marked \cup {extract_listing_id_from_url(Head(links[r]))}
    /\ links' = [links EXCEPT ![r] = Tail(@)]
    /\ UNCHANGED <<apc, processed_file, NotApp>>

\* the loop is over: the run writes its processed_ids to the file
RunSaves(r) ==
    /\ apc[r] = "loop"
    /\ links[r] = <<>>
    /\ processed_file' = processed_ids[r]
    /\ apc' = [apc EXCEPT ![r] = "done"]
    /\ UNCHANGED <<processed_ids, links, emailed, marked, NotApp>>

NextApp == \E r \in Runs : RunStarts(r) \/ LinkSkipped(r) \/ LinkFails(r) \/ LinkProcessed(r) \/ RunSaves(r)

SpecApp == InitApp /\ [][NextApp]_vars
-----------------------------------------------------------------------------
(* What analyser_centris reads of html, for the properties below *)

\* the price of the JSON-LD scripts, and whether step 0 of the header accepts it
JsonLdPrice == _extract_price_from_jsonld(html)
JsonLdAccepted == html.kind = "str" /\ Truthy(JsonLdPrice) /\ JsonLdPrice.v >= PriceFloor

\* the price of the header and the step that found it
Header == HeaderPrice(html)
HeaderFromText == html.kind = "str" /\ Header.src \in {"window", "top"}

\* the listing the fields are extracted from, 0 when there is none
ListingIdx ==
    IF html.kind = "str" /\ PayloadTruthy(_extract_next_data_json(html))
    THEN PickListing(html.next.nodes, _extract_centris_id_from_html(html)).idx
    ELSE 0

\* the fields of that listing
Extracted ==
    IF ListingIdx # 0 THEN _extract_from_listing(html.next.nodes[ListingIdx])
    ELSE [raised |-> FALSE, f |-> NoFields]

ListingExtracted == ListingIdx # 0 /\ ~Extracted.raised

\* the price of the listing passes _price_is_phantom
EmbeddedPlausible ==
    /\ ListingExtracted
    /\ ~_price_is_phantom(Extracted.f.prix, Extracted.f.revenu_brut_potentiel_annuel)

FromText == _fallback_text_extract(html)

FinalPrix == out.property_overview.prix
FinalRevenu == out.revenus.revenu_brut_potentiel_annuel
FinalSource == out.raw_debug.price_source

-----------------------------------------------------------------------------
(* C1 *)

\* JSON-LD yields an accepted price and the selected listing another price
C1Case ==
    /\ pc = "returned"
    /\ JsonLdAccepted
    /\ ListingExtracted
    /\ Extracted.f.prix.t = "int"
    /\ Extracted.f.prix # JsonLdPrice

-----------------------------------------------------------------------------
(* C2 *)

\* C2 as stated: a price of the record returned is strictly below 15,000,000,
\* whichever source supplied it.
C2_FinalPriceBelowCeiling ==
    (pc = "returned" /\ FinalPrix.t = "int") => FinalPrix.v < PriceCeiling

-----------------------------------------------------------------------------
(* C3 *)

\* C3 as stated: when the record returned holds a price and a positive gross
\* revenue, the price is at most 60 times the revenue.
C3_FinalPriceWithinRentMultiplier ==
    (pc = "returned" /\ FinalPrix.t = "int" /\ FinalRevenu.t = "int" /\ FinalRevenu.v > 0)
        => FinalPrix.v <= MaxRentMultiplier * FinalRevenu.v

-----------------------------------------------------------------------------
(* C4 *)

-----------------------------------------------------------------------------
(* C5 *)

\* the fields other than the price, of the record and of an extractor's dict
RecordFields(o) ==
    <<o.revenus.revenu_brut_potentiel_annuel,
      o.depenses_vraies.taxes_municipales,
      o.depenses_vraies.taxes_scolaires,
      o.property_overview.nb_logements,
      o.property_overview.type_propriete>>

ExtractorFields(f) ==
    <<f.revenu_brut_potentiel_annuel, f.taxes_municipales, f.taxes_scolaires,
      f.nb_logements, f.type_propriete>>

\* the price of the record: the header's, else the extractor's when the filter
\* lets it through, else None
PriceFrom(f, tag) ==
    IF Truthy(Header.p) THEN FinalPrix = Header.p /\ FinalSource = "header"
    ELSE /\ FinalSource = tag
         /\ FinalPrix = IF _price_is_phantom(f.prix, f.revenu_brut_potentiel_annuel)
                        THEN None ELSE f.prix

-----------------------------------------------------------------------------
(* C6 *)

\* C6 as stated: analyser_centris never raises, and for an input that is empty
\* or is not a string it returns the record with every field None.
C6_NeverRaises ==
    /\ pc # "raised"
    /\ (pc = "returned" /\ html.kind # "str") =>
            /\ out.property_overview = OutInit.property_overview
            /\ out.revenus = OutInit.revenus
            /\ out.depenses_vraies = OutInit.depenses_vraies

-----------------------------------------------------------------------------
(* C8 *)

\* the text once the currency symbols and the whitespace are removed
Cleaned(cs) == Remove(Strip(SelectSeq(Spaced(cs), LAMBDA c : c \in KeptChars)), " ")

\* one comma, no dot, exactly two digits after the comma, digits or nothing
\* before it
CommaTwoDigits(c) ==
    /\ ~Contains(c, ".")
    /\ Count(c, ",") = 1
    /\ Len(c) >= 3
    /\ c[Len(c) - 2] = ","
    /\ c[Len(c) - 1] \in Digits
    /\ c[Len(c)] \in Digits
    /\ AllDigits(Unsigned(SubSeq(c, 1, Len(c) - 3)))

\* the amount of such a text, its comma read as the decimal separator, rounded
DecimalAmount(c) ==
    Some(RoundHalfEven(
        (IF c[1] = "-" THEN -1 ELSE 1)
            * (100 * DigitsToInt(Unsigned(SubSeq(c, 1, Len(c) - 3)))
                + DigitsToInt(SubSeq(c, Len(c) - 1, Len(c)))),
        100))

C8Rule(c) ==
    IF ~Contains(c, ",") THEN TRUE
    ELSE IF CommaTwoDigits(c) THEN ret = DecimalAmount(c)
    \* several commas, the last one before the two last digits: either reading
    ELSE IF ~Contains(c, ".") /\ Len(c) >= 3 /\ c[Len(c) - 2] = ","
            /\ c[Len(c) - 1] \in Digits /\ c[Len(c)] \in Digits /\ Count(c, ",") > 1
    THEN TRUE
    ELSE ret = IntRoundFloat(Remove(c, ","))

\* C8 as stated: a comma with no dot and exactly two digits after it is the
\* decimal separator and the result is the amount rounded; any other comma is a
\* thousands separator and is stripped; "3 120,00 $" gives 3120, "9,844" gives
\* 9844, "1,234.56" gives 1235 and "908 000 $" gives 908000.
C8_CommaDecimalOrThousands ==
    (mpc = "done" /\ x.t = "str") =>
        /\ C8Rule(Cleaned(x.s))
        /\ x.s = Txt3120 => ret = Some(3120)
        /\ x.s = Txt9844 => ret = Some(9844)
        /\ x.s = Txt1234_56 => ret = Some(1235)
        /\ x.s = Txt908000 => ret = Some(908000)

-----------------------------------------------------------------------------
(* C9 *)

\* C9 as stated: _money_to_int never raises, a text without a digit gives None,
\* and a result that is not None is an integer >= 0.
C9_TotalAndNonNegative ==
    mpc = "done" =>
        /\ ret # Raise
        /\ ret.t = "int" => ret.v >= 0
        /\ (x.t = "str" /\ \A i \in 1..Len(x.s) : x.s[i] \notin Digits) => ret = None

-----------------------------------------------------------------------------
(* C10 *)

RECURSIVE Flatten(_)
Flatten(ss) == IF ss = <<>> THEN <<>> ELSE Head(ss) \o Flatten(Tail(ss))

\* the offers.price values of the document, in document order
ItemPrices(it) == [i \in 1..Len(it.offers) |-> it.offers[i].price]
ScriptPrices(script) == Flatten([i \in 1..Len(script.items) |-> ItemPrices(script.items[i])])
DocumentPrices(ld) == Flatten([i \in 1..Len(ld) |-> ScriptPrices(ld[i])])

\* the first of the prices whose normalized value is at least 20,000
RECURSIVE FirstQualifying(_)
FirstQualifying(prices) ==
    IF prices = <<>> THEN None
    ELSE IF Truthy(_money_to_int(Head(prices))) /\ _money_to_int(Head(prices)).v >= PriceFloor
    THEN _money_to_int(Head(prices))
    ELSE FirstQualifying(Tail(prices))

\* C10 as stated: the extractor yields the first offers.price of the document
\* whose normalized value is at least 20,000, passing over the offers before it
\* whose price is lower or cannot be parsed.
C10_FirstQualifyingOffer ==
    (pc = "returned" /\ html.kind = "str"
        /\ FirstQualifying(DocumentPrices(html.ld)) # None)
        => /\ JsonLdPrice = FirstQualifying(DocumentPrices(html.ld))
           /\ out.raw_debug.display_price = FirstQualifying(DocumentPrices(html.ld))

-----------------------------------------------------------------------------
(* C11 *)

CentrisId == _extract_centris_id_from_html(html)
PayloadNodes == IF html.kind = "str" /\ PayloadTruthy(_extract_next_data_json(html))
                THEN html.next.nodes ELSE <<>>

\* the dicts of the payload whose own id-like field equals the identifier
IdMatches ==
    {i \in 1..Len(PayloadNodes) :
        /\ CentrisId # <<>>
        /\ PayloadNodes[i].idkey \in IdLikeKeys
        /\ StrOfId(PayloadNodes[i].idval) = CentrisId}

\* the record holds the fields of the dict i of the payload
FieldsOfNode(i) ==
    RecordFields(out) = ExtractorFields(_extract_from_listing(PayloadNodes[i]).f)

\* C11: when an identifier is derived from the document and dicts of the payload
\* hold it in an id-like field, the first of them in traversal order is the
\* listing the fields are extracted from, whatever the scores of the other dicts;
\* the scoring pass is not run (best_listing_score stays None) and picked_mode is
\* "by_id".
C11_SelectedById ==
    (pc = "returned" /\ IdMatches # {}) =>
        /\ out.raw_debug.picked_mode = "by_id"
        /\ out.raw_debug.best_listing_score = None
        /\ \E i \in IdMatches :
            /\ \A j \in IdMatches : i <= j
            /\ ListingIdx = i
            /\ FieldsOfNode(i)

\* the first dict holds the identifier and scores 8; the second holds it too,
\* with other fields and a higher score
C11_Witness ==
    /\ pc = "returned"
    /\ Cardinality(IdMatches) = 2
    /\ _score_listing_candidate(PayloadNodes[1]) < _score_listing_candidate(PayloadNodes[2])
    /\ ~FieldsOfNode(2)
    /\ FieldsOfNode(1)
    /\ out.raw_debug.picked_mode = "by_id"

-----------------------------------------------------------------------------
(* C12 *)

Scores == {_score_listing_candidate(PayloadNodes[i]) : i \in 1..Len(PayloadNodes)}

\* the dicts of the payload whose score is the maximum
BestNodes ==
    {i \in 1..Len(PayloadNodes) : _score_listing_candidate(PayloadNodes[i]) = Max(Scores)}

\* no field of the record comes from the payload: the fields are those of the
\* text, the price the header's or the text's
NothingFromPayload ==
    /\ out.raw_debug.picked_mode = "fallback_text"
    /\ RecordFields(out) = ExtractorFields(FromText)
    /\ PriceFrom(FromText, "fallback")

\* C12: when the payload is read and no dict matches the identifier, the dict
\* selected is the first in traversal order of those whose score is the maximum,
\* best_listing_score is that maximum, and the fields are extracted from it only
\* if the score is at least 8; below 8 (or with no dict at all) no field of the
\* record comes from the payload.
C12_SelectedByBestScore ==
    (pc = "returned" /\ html.kind = "str" /\ PayloadTruthy(_extract_next_data_json(html))
        /\ IdMatches = {}) =>
        IF PayloadNodes # <<>> /\ Max(Scores) >= MinListingScore
        THEN /\ out.raw_debug.picked_mode = "best_score"
             /\ out.raw_debug.best_listing_score = Some(Max(Scores))
             /\ ListingIdx = Min(BestNodes)
             /\ FieldsOfNode(Min(BestNodes))
        ELSE /\ ListingIdx = 0
             /\ NothingFromPayload
             /\ PayloadNodes # <<>> => out.raw_debug.best_listing_score = Some(Max(Scores))

\* two dicts score 8, the maximum; the price of the record is the first one's
C12_Witness ==
    /\ pc = "returned"
    /\ IdMatches = {}
    /\ BestNodes = {1, 2}
    /\ PayloadNodes[1] # PayloadNodes[2]
    /\ out.raw_debug.best_listing_score = Some(8)
    /\ ~Truthy(Header.p)
    /\ _extract_from_listing(PayloadNodes[2]).f.prix = Some(450000)
    /\ FinalPrix = None
    /\ FinalSource = "next_data"

\* the best dict scores 7: the record holds nothing of it
C12_WitnessBelowThreshold ==
    /\ pc = "returned"
    /\ PayloadNodes # <<>>
    /\ Max(Scores) = 7
    /\ NothingFromPayload

-----------------------------------------------------------------------------
(* C13 *)

PayloadUnavailable == html.kind = "str" /\ html.next.k \in {"absent", "blank", "bad"}

\* C13: when the __NEXT_DATA__ script is absent, blank or not valid JSON, the
\* payload raises nothing (an exception that leaves analyser_centris is the
\* header's), no listing is looked for, and the record is the one of the text
\* fallback, picked_mode "fallback_text".
C13_PayloadUnavailable ==
    PayloadUnavailable =>
        /\ pc = "raised" => Header.src = "raise"
        /\ pc = "returned" =>
            /\ ~out.raw_debug.has_next_data
            /\ out.raw_debug.best_listing_score = None
            /\ NothingFromPayload

\* a script that is not valid JSON, a text with a revenue: the record holds it
C13_Witness ==
    /\ pc = "returned"
    /\ html.next.k = "bad"
    /\ FromText.revenu_brut_potentiel_annuel = Some(5000)
    /\ FinalRevenu = Some(5000)
    /\ out.raw_debug.picked_mode = "fallback_text"

-----------------------------------------------------------------------------
(* C14 *)

\* the groups and the field names of the record
RecordShape(o) ==
    /\ DOMAIN o.property_overview =
        {"prix", "nb_logements", "ville", "quartier", "type_propriete", "nb_etages",
         "superficie_habitable_sqft", "superficie_commerciale_sqft",
         "superficie_totale_sqft", "superficie_terrain_sqft"}
    /\ DOMAIN o.revenus = {"revenu_brut_potentiel_annuel"}
    /\ DOMAIN o.depenses_vraies =
        {"taxes_municipales", "taxes_scolaires", "assurances", "services_publics",
         "electricite", "chauffage", "deneigement", "autres_depenses_connues"}
    /\ "price_source" \in DOMAIN o.raw_debug
    /\ o.raw_debug.price_source \in {"header", "next_data", "fallback"}

\* C14: every record returned, on every path, holds the groups
\* property_overview, revenus, depenses_vraies and raw_debug with the fixed field
\* names; raw_debug holds the source tag of the price (price_source); the version
\* tag is the key __analyzer_version__ of the record itself, not an entry of
\* raw_debug.
C14_RecordShape ==
    pc = "returned" =>
        /\ DOMAIN out = {"__analyzer_version__", "property_overview", "revenus",
                         "depenses_vraies", "raw_debug"}
        /\ RecordShape(out)
        /\ out.__analyzer_version__ = ANALYZER_VERSION
        /\ DOMAIN out.raw_debug =
            {"has_next_data", "centris_id", "picked_mode", "best_listing_score",
             "display_price", "price_source", "phantom_filtered"}

\* the three paths
C14_Witness ==
    /\ pc = "returned"
    /\ out.raw_debug.picked_mode = "by_id"
    /\ FinalSource = "next_data"
    /\ out.__analyzer_version__ = ANALYZER_VERSION

\* C14 as stated: raw_debug carries the version tag
C14_VersionTagInRawDebug ==
    pc = "returned" =>
        /\ RecordShape(out)
        /\ "__analyzer_version__" \in DOMAIN out.raw_debug

-----------------------------------------------------------------------------
(* C15 *)

\* the inputs as compute_template1 reads them
GrossIn == fnum(inputs.revenu_brut_annuel)
PriceIn == fnum(inputs.price)

\* the sum of the expenses that are present, an absent one counting for 0
PresentExpenses == DepensesVraiesWith(inputs, ConciergeZero(inputs))

NoExpense == \A f \in ExpenseFields : inputs[f] = PyNone

\* C15 as stated: depenses_vraies is the sum of the expense inputs that are
\* present, an absent expense counts for 0, and with every expense absent the
\* total is 0.
C15_AbsentExpenseCountsZero ==
    cpc = "returned" =>
        /\ results.depenses_vraies = PresentExpenses
        /\ NoExpense => results.depenses_vraies = Zero

-----------------------------------------------------------------------------
(* C16 *)

\* vacancy, salaries and the maintenance allowance of a known gross revenue
Normalisation ==
    FAdd(FAdd(FMul(GrossIn, inputs.vacances_rate), FMul(GrossIn, inputs.salaires_rate)),
         inputs.entretien_fixed)

\* C16: when the gross revenue is known, noi_avant_norm is the gross revenue
\* less depenses_vraies, depenses_fausses is vacancy (gross x vacancy rate) plus
\* salaries (gross x salary rate) plus the fixed maintenance allowance, noi is
\* the gross revenue less depenses_vraies plus depenses_fausses, and
\* depenses_vraies is the total of the expenses alone, the normalisation not in
\* it.
C16_NoiFormulas ==
    (cpc = "returned" /\ GrossIn.k = "float") =>
        /\ results.noi_avant_norm = FSub(GrossIn, results.depenses_vraies)
        /\ results.depenses_fausses = Normalisation
        /\ results.depenses_totales =
            FAdd(results.depenses_vraies, results.depenses_fausses)
        /\ results.noi =
            FSub(GrossIn, FAdd(results.depenses_vraies, results.depenses_fausses))
        /\ results.depenses_vraies = DepensesVraiesWith(inputs, concierge(inputs))

\* gross 2000, municipal tax 200, no conciergerie: expenses 565, normalisation
\* 60 + 100 + 610
C16_Witness ==
    /\ cpc = "returned"
    /\ GrossIn = Frac(2000, 1)
    /\ results.depenses_vraies = Frac(565, 1)
    /\ results.depenses_fausses = Frac(770, 1)
    /\ results.noi_avant_norm = Frac(1435, 1)
    /\ results.noi = Frac(665, 1)

-----------------------------------------------------------------------------
(* C17 *)

\* the exceptions of compute_template1: float(x) of an expense in nz, and the
\* division of pmt_monthly
RaisedBefore == depenses_vraies(inputs).k = "raise" \/ pmt(inputs).k = "raise"

\* C17: cap_rate is noi / price when the NOI is known and the price is known and
\* not 0, None when the price is absent or 0 or the NOI unknown, and the
\* division raises nothing: an exception that leaves compute_template1 is
\* raised by an expense or by the payment, before or apart from cap_rate.
C17_CapRate ==
    /\ cpc = "raised" => RaisedBefore
    /\ cpc = "returned" =>
        results.cap_rate =
            IF results.noi.k = "float" /\ PriceIn.k = "float" /\ PriceIn.num # 0
            THEN FDiv(results.noi, PriceIn) ELSE FNone

\* a price of 0 and a known NOI
C17_Witness ==
    /\ cpc = "returned"
    /\ inputs.price = PyInt(0)
    /\ results.noi.k = "float"
    /\ results.cap_rate = FNone

\* a price and a NOI: 865 / 10000
C17_WitnessQuotient ==
    /\ cpc = "returned"
    /\ PriceIn = Frac(10000, 1)
    /\ results.noi = Frac(865, 1)
    /\ results.cap_rate = Frac(865, 10000)

-----------------------------------------------------------------------------
(* C18 *)

\* C18 as stated: dscr is None whenever the annual debt service is 0 or
\* unknown, noi / ds_annual otherwise, and no input makes the computation raise
\* a division error: an exception is the ValueError of an expense.
C18_DscrNeverDivides ==
    /\ cpc = "raised" => depenses_vraies(inputs).k = "raise"
    /\ cpc = "returned" =>
        results.dscr =
            IF results.noi.k = "float" /\ results.ds_annual.k = "float"
                /\ results.ds_annual.num # 0
            THEN FDiv(results.noi, results.ds_annual) ELSE FNone

-----------------------------------------------------------------------------
(* C19 *)

\* C19 as stated: cashflow is the cashflow of a month, noi / 12 less the
\* monthly payment, when the NOI and the payment are known, None otherwise.
C19_CashflowMonthly ==
    cpc = "returned" =>
        results.cashflow =
            IF results.noi.k = "float" /\ results.pmt_monthly.k = "float"
            THEN FSub(FDiv(results.noi, Frac(12, 1)), results.pmt_monthly) ELSE FNone

-----------------------------------------------------------------------------
(* C20 *)

Known(f) == results[f].k = "float"
Unknown(F) == \A f \in F : results[f] = FNone

\* an input that is present and no number: the text of an expense, or 0
\* payments a year with a price
PresentInputRaises ==
    \/ \E f \in ExpenseFields \ {"conciergerie"} : inputs[f].t = "str"
    \/ inputs.payments_per_year = 0 /\ inputs.price.t # "None"

\* C20: no absent input raises an exception (an exception that leaves
\* compute_template1 comes from an input that is present); with the gross
\* revenue absent noi_avant_norm, noi, cap_rate, noi_pct, dscr, cashflow and
\* offre_max are None while loan, pmt_monthly, ds_annual and noi_required are
\* known when the price is; with the price absent cap_rate, loan, pmt_monthly,
\* ds_annual, dscr, noi_required and cashflow are None while noi_avant_norm and
\* noi are known when the gross revenue is, and offre_max too when the
\* capitalisation rate of the offer is positive.
C20_GracefulDegradation ==
    /\ cpc = "raised" => PresentInputRaises
    /\ (cpc = "returned" /\ inputs.revenu_brut_annuel = PyNone) =>
        /\ Unknown({"noi_avant_norm", "noi", "cap_rate", "noi_pct", "dscr",
                    "cashflow", "offre_max"})
        /\ PriceIn.k = "float" =>
            /\ Known("loan") /\ Known("pmt_monthly")
            /\ Known("ds_annual") /\ Known("noi_required")
    /\ (cpc = "returned" /\ inputs.price = PyNone) =>
        /\ Unknown({"cap_rate", "loan", "pmt_monthly", "ds_annual", "dscr",
                    "noi_required", "cashflow"})
        /\ GrossIn.k = "float" =>
            /\ Known("noi_avant_norm") /\ Known("noi")
            /\ FLess(Zero, inputs.cap_target_offer) => Known("offre_max")

\* no gross revenue, a price: the loan and its payment are known, the NOI is
\* not
C20_Witness ==
    /\ cpc = "returned"
    /\ inputs.revenu_brut_annuel = PyNone
    /\ inputs.price = PyInt(10000)
    /\ results.loan = Frac(8000, 1)
    /\ Known("pmt_monthly") /\ Known("noi_required")
    /\ results.noi = FNone /\ results.cashflow = FNone

\* no price, a gross revenue: the NOI and the offer are known, the loan is not
C20_WitnessNoPrice ==
    /\ cpc = "returned"
    /\ inputs.price = PyNone
    /\ inputs.revenu_brut_annuel = PyInt(2000)
    /\ Known("noi") /\ Known("offre_max")
    /\ results.loan = FNone /\ results.dscr = FNone

\* every input absent
C20_WitnessNothing ==
    /\ cpc = "returned"
    /\ \A f \in ExpenseFields \cup {"price", "revenu_brut_annuel", "units"} :
        inputs[f] = PyNone
    /\ Unknown(Template1Keys \ {"depenses_vraies", "depenses_fausses", "depenses_totales"})

-----------------------------------------------------------------------------
(* C21 *)

\* the rate of a payment and the number of payments, 12 payments a year
MonthlyRate == FDiv(inputs.taux, Frac(12, 1))
NumPayments == inputs.amort_years * 12

\* (1 + r) ** n
Growth == FPow(FAdd(One, MonthlyRate), NumPayments)

\* C21: with 12 payments a year the loan is price x qf, the rate of a payment
\* is taux / 12 and the number of payments n is amort_years x 12; at the rate 0
\* the payment is loan / n and the amortisation formula is not evaluated (it
\* raises nothing); at another rate the payment is
\* loan x r (1 + r)^n / ((1 + r)^n - 1).
C21_PmtMonthly ==
    (inputs.payments_per_year = 12 /\ PriceIn.k = "float") =>
        /\ cpc = "raised" => depenses_vraies(inputs).k = "raise"
        /\ cpc = "returned" =>
            /\ results.loan = FMul(PriceIn, inputs.qf)
            /\ (NumPayments > 0 /\ inputs.taux = Zero) =>
                results.pmt_monthly = FDiv(results.loan, Frac(NumPayments, 1))
            /\ (NumPayments > 0 /\ inputs.taux # Zero) =>
                results.pmt_monthly =
                    FDiv(FMul(results.loan, FMul(MonthlyRate, Growth)), FSub(Growth, One))

\* a loan of 8000 at the rate 0 over 12 payments
C21_Witness ==
    /\ cpc = "returned"
    /\ inputs.payments_per_year = 12 /\ inputs.taux = Zero /\ inputs.amort_years = 1
    /\ results.loan = Frac(8000, 1)
    /\ results.pmt_monthly = Frac(8000, 12)

\* a loan of 8000 at 100 % a payment over 12 payments: 8000 x 4096 / 4095
C21_WitnessRate ==
    /\ cpc = "returned"
    /\ inputs.payments_per_year = 12 /\ inputs.taux = Frac(12, 1)
    /\ results.loan = Frac(8000, 1)
    /\ results.pmt_monthly = Frac(8000 * 4096, 4095)

-----------------------------------------------------------------------------
(* C22 *)

\* no JSON-LD price, no meta price, no payload: the price is the visible text's
C22Case ==
    /\ pc = "returned"
    /\ html.kind = "str"
    /\ ~JsonLdAccepted
    /\ ScanMetas(html.meta).k # "ret"
    /\ ~PayloadTruthy(_extract_next_data_json(html))

\* the lines that hold "à vendre", among the lines the anchor scan reads
Anchors ==
    {i \in 1..Len(html.text) :
        html.text[i].k = "vendre" /\ LineOf(html.text, i) < AnchorScanLines}

\* the figures of at least 20,000 that the lines [from, to) hold, each "... $"
\* of the document on its own
FiguresOf(from, to) ==
    {v \in {_money_to_int(PyStr(html.text[i].s)).v :
            i \in {j \in 1..Len(html.text) :
                    /\ HasAmount(html.text[j])
                    /\ from <= LineOf(html.text, j) /\ LineOf(html.text, j) < to}} :
        v >= PriceFloor}

WindowFigures ==
    IF Anchors = {} THEN {}
    ELSE FiguresOf(LineOf(html.text, Min(Anchors)),
                   LineOf(html.text, Min(Anchors)) + WindowLines)
TopFigures == FiguresOf(0, TopLines)

\* C22 as stated: with no JSON-LD price, no meta price and no payload, the
\* price is the largest of the figures of at least 20,000 of the window of 80
\* lines that starts at the first "à vendre" line; the first 420 lines are read
\* instead only if no line holds the anchor (with an anchor whose window holds
\* no figure the header yields no price).
C22_LargestFigureOfWindow ==
    C22Case =>
        /\ WindowFigures # {} => FinalPrix = Some(Max(WindowFigures))
        /\ (Anchors = {} /\ TopFigures # {}) => FinalPrix = Some(Max(TopFigures))
        /\ (Anchors # {} /\ WindowFigures = {}) => FinalSource # "header"

-----------------------------------------------------------------------------
(* C23 *)

\* C23 as stated: the record never holds a gross revenue strictly between 0
\* and 1000 (a smaller figure is multiplied by 1000 before it is placed in
\* revenus.revenu_brut_potentiel_annuel).
C23_NoSmallRevenue ==
    pc = "returned" => ~(FinalRevenu.t = "int" /\ 0 < FinalRevenu.v /\ FinalRevenu.v < 1000)

-----------------------------------------------------------------------------
(* C30 *)

PhantomFiltered == out.raw_debug.phantom_filtered

\* C30: in every record returned, price_source is one of "header", "next_data",
\* "fallback"; phantom_filtered is True only if price_source is not "header" and
\* prix is None; and a prix tagged "next_data" or "fallback" is at least 20,000
\* and less than 15,000,000 and, when the revenue of the record is known and
\* positive, at most 60 times that revenue.
C30_PriceProvenance ==
    pc = "returned" =>
        /\ FinalSource \in {"header", "next_data", "fallback"}
        /\ PhantomFiltered => (FinalSource # "header" /\ FinalPrix = None)
        /\ (FinalSource \in {"next_data", "fallback"} /\ FinalPrix.t = "int") =>
            /\ PriceFloor <= FinalPrix.v
            /\ FinalPrix.v < PriceCeiling
            /\ (FinalRevenu.t = "int" /\ FinalRevenu.v > 0) =>
                FinalPrix.v <= MaxRentMultiplier * FinalRevenu.v

\* a price of exactly 60 times the revenue is kept
C30_Witness ==
    /\ pc = "returned"
    /\ FinalSource = "fallback"
    /\ FinalPrix = Some(300000)
    /\ FinalRevenu = Some(5000)
    /\ ~PhantomFiltered

\* a price of exactly 15,000,000 is dropped
C30_WitnessCeiling ==
    /\ pc = "returned"
    /\ FromText.prix = Some(PriceCeiling)
    /\ FinalSource = "fallback"
    /\ FinalPrix = None
    /\ PhantomFiltered


-----------------------------------------------------------------------------
(* C24: the retries of _post_to_analyzer *)

Retryable(resp) == resp.k = "timeout" \/ (resp.k = "status" /\ resp.code \in RetryStatuses)
LastPost == posts[Len(posts)]
MostPosts == IF ANALYZER_RETRY + 1 > 0 THEN ANALYZER_RETRY + 1 ELSE 0

\* the triple that the last POST of a call stands for
TripleOfLast(resp) ==
    IF resp.k = "status" /\ resp.code = 200
    THEN Triple(200, "text", IF resp.json = "invalid" THEN "None" ELSE resp.json)
    ELSE IF resp.k = "status" THEN Triple(resp.code, "preview", "None")
    ELSE IF resp.k = "timeout" THEN NetworkError("timeout")
    ELSE NetworkError("exception")

C24_WitnessTimeout ==
    /\ ppc = "returned"
    /\ Len(posts) = ANALYZER_RETRY + 1
    /\ Len(posts) > 1
    /\ LastPost = PostTimeout
    /\ triple = NetworkError("timeout")

-----------------------------------------------------------------------------
(* C25: the strict mode of analyze_listing *)

Analysed == last.id # NoId
Recognised == last.page.ok /\ ~last.page.empty /\ last.page.centris /\ last.id \in last.page.ids
ReturnsError(e) == last.posts = 0 /\ last.data = ErrorRecord(e)

\* C25: the analyser is POSTed only a page that was fetched, is not blocked and
\* holds "centris" and the id of the listing; a failed fetch returns
\* fetch_failed, a blocked page html_blocked_or_consent, whether or not it
\* holds the id, and an unblocked page without the id html_not_listing_page,
\* each without a POST.
C25_StrictMode ==
    Analysed =>
        /\ last.posts > 0 => last.page.ok /\ ~looks_blocked(last.page) /\ Recognised
        /\ ~last.page.ok => ReturnsError("fetch_failed")
        /\ last.page.ok /\ looks_blocked(last.page) => ReturnsError("html_blocked_or_consent")
        /\ last.page.ok /\ ~looks_blocked(last.page) /\ ~Recognised => ReturnsError("html_not_listing_page")

\* a page with a bad marker and without the id: blocked, not "not a listing"
C25_Witness ==
    /\ Analysed
    /\ last.page = Page(FALSE, TRUE, TRUE, {})
    /\ ReturnsError("html_blocked_or_consent")

\* a validated page is POSTed, three times when the analyser is slow
C25_WitnessPosted ==
    /\ Analysed
    /\ Recognised
    /\ last.posts = 3
    /\ last.data = AnalyzerRecord("dict")

-----------------------------------------------------------------------------
(* C26: a listing is processed at most once *)

OnceIf(b) == IF b THEN 1 ELSE 0

\* C26: a URL without an id is never analysed; a listing is analysed once for
\* its id to be in the seen file and once more for each turn that an exception
\* ended, and a message about it is posted at most once; so over scans that
\* no exception ends each listing is analysed and posted at most once.  In the
\* loop the set seen is the content of the file.
C26_AtMostOnce ==
    /\ analysed[NoId] = 0
    /\ notified[NoId] = 0
    /\ \A i \in ListingIds :
        /\ analysed[i] = failed[i] + OnceIf(i \in seen_file)
        /\ notified[i] <= OnceIf(i \in seen_file)
    /\ wpc = "loop" => seen = seen_file

\* the first scan analysed duplex 12345678 and skipped triplex 12345678
C26_Witness ==
    /\ wpc = "loop"
    /\ scans = 1
    /\ urls = <<Duplex7>>
    /\ seen = {Id8}
    /\ analysed[Id8] = 1
    /\ notified[Id8] = 1

\* a later scan met both listings again and analysed neither
C26_WitnessLaterScan ==
    /\ wpc = "start"
    /\ scans = MaxScans
    /\ failed = NoCount
    /\ \A i \in ListingIds : analysed[i] = 1 /\ notified[i] = 1

-----------------------------------------------------------------------------
(* C27: the message is sent before the id is marked *)

\* C27: an id is in the seen file only when send_discord_message returned for
\* its listing, with its message posted when the webhook is configured; the
\* file holds the id as soon as the turn of the listing is over, before the
\* next turn; a turn that the Discord POST left by an exception leaves the id
\* out of the file and ends the scan, and the restart that follows finds the
\* listing unmarked.
C27_NotifyBeforeMark ==
    /\ \A i \in seen_file : notified[i] = OnceIf(DISCORD_WEBHOOK_URL) /\ analysed[i] > failed[i]
    /\ Analysed /\ ~last.sent.raised => last.id \in seen_file
    /\ Analysed /\ last.sent.raised => last.id \notin seen_file /\ notified[last.id] = 0
    /\ wpc = "loop" => seen = seen_file
    /\ wpc = "crashed" => urls = <<>> /\ ENABLED Restart

\* the POST to Discord raised in one scan; a later scan analysed the listing
\* again, posted its message and marked it
C27_Witness ==
    /\ failed[Id8] = 1
    /\ analysed[Id8] = 2
    /\ notified[Id8] = 1
    /\ Id8 \in seen_file

\* the exception has just ended the scan: the id is not in the file
C27_WitnessCrashed ==
    /\ wpc = "crashed"
    /\ Analysed
    /\ last.sent.raised
    /\ last.id \notin seen_file
    /\ seen_file # {}

-----------------------------------------------------------------------------
(* C28: a failed analysis is final *)

ErrorKinds == {"fetch_failed", "html_blocked_or_consent", "html_not_listing_page", "analyzer_network_error", "analyzer_http_error"}
Failed == Analysed /\ last.data.error \in ErrorKinds

\* C28 as stated: every listing whose analysis gave an error record is
\* reported to Discord as a warning, without compute_template1, and marked.
C28_FailedAnalysesReported ==
    Failed =>
        /\ last.sent.message = "warning"
        /\ ~last.sent.computed
        /\ last.id \in seen_file

\* C28: analyze_listing returns a dict; when the result is an error record and
\* send_discord_message returns, compute_template1 has not run, the message is
\* the warning if DISCORD_WEBHOOK_URL is set and nothing is posted if it is
\* not, and the id is in the seen file, analysed once beyond the turns that an
\* exception ended; when the POST of the warning raises the id is not marked.
C28_FailedAnalysesAreFinal ==
    /\ Analysed => last.data.dict
    /\ Failed /\ ~last.sent.raised =>
        /\ last.sent.message = IF DISCORD_WEBHOOK_URL THEN "warning" ELSE "none"
        /\ ~last.sent.computed
        /\ last.id \in seen_file
        /\ analysed[last.id] = failed[last.id] + 1
    /\ Failed /\ last.sent.raised =>
        /\ DISCORD_WEBHOOK_URL
        /\ ~last.sent.computed
        /\ last.id \notin seen_file

\* an HTTP error of the analyser was reported and marked, and the scans that
\* followed did not analyse the listing again
C28_Witness ==
    /\ wpc = "start"
    /\ scans = MaxScans
    /\ last.data = ErrorRecord("analyzer_http_error")
    /\ last.sent = Sent(FALSE, "warning", FALSE)
    /\ last.id \in seen_file
    /\ analysed[last.id] = 1

\* without a webhook the failed listing is marked and nothing is posted
C28_WitnessNoWebhook ==
    /\ ~DISCORD_WEBHOOK_URL
    /\ last.data = ErrorRecord("fetch_failed")
    /\ last.sent = Sent(FALSE, "none", FALSE)
    /\ last.id \in seen_file
    /\ notified[last.id] = 0

-----------------------------------------------------------------------------
(* C29: two runs of process_new_centris_listings at the same time *)

BothSaved == \A r \in Runs : apc[r] = "done"

\* C29 as stated: whatever the interleaving of the scheduler job and the
\* /scan-une-fois route, no listing is emailed more than once, and once both
\* runs have saved, the file holds every id that either run marked.
C29_ConcurrentScans ==
    /\ \A i \in AppIds : emailed[i] <= 1
    /\ BothSaved => marked \subseteq processed_file
====
